---- MODULE Spec2Model ----
(***************************************************************************)
(* VodPipeline: the directory watcher (bin/vod_watcher.py), its job queue  *)
(* and single worker, the stabilisation wait, and the retrying status      *)
(* client (bin/clients/job_status_client.py).                              *)
(*                                                                         *)
(* Three specifications share the variables:                               *)
(*   Spec / FairSpec  main, the observer thread running on_created, the    *)
(*                    worker thread(s) running worker_loop                 *)
(*   StableSpec       one call of wait_until_stable against a file whose   *)
(*                    size the environment changes, with a clock           *)
(*   ClientSpec       calls of JobStatusClient.post_status against a       *)
(*                    transport whose outcome the environment chooses      *)
(***************************************************************************)
EXTENDS Integers, Sequences, FiniteSets, TLC

(* ------------------------------ bounds ------------------------------- *)

\* filesystem events the observer's emitter produces in one behaviour
MaxEvents == 3

\* StableSpec: the clock stops at MaxTime, file sizes are 0..MaxSize
MaxTime == 15
MaxSize == 1

\* ClientSpec: clients are constructed with max_retries in 0..MaxRetries
MaxRetries == 3

\* PipeSpec: runs of run_for_file in one behaviour
MaxRuns == 2

\* StoreSpec, EventSpec: store mutations in one behaviour (the clock's range)
MaxOps == 3

(* ------------------------- program constants ------------------------- *)

\* a main that starts a second worker thread
NumWorkersTwo == 1 + 1
\* main starts exactly one worker thread
NumWorkers == 1

Workers == 1..NumWorkers

\* paths the emitter can report; d.mp4 is a directory
FilePaths == {"a.mp4", "b.MP4", "n.txt"}
DirPaths == {"d.mp4"}

\* Path.suffix
Suffix(p) ==
    CASE p = "a.mp4" -> ".mp4"
      [] p = "b.MP4" -> ".MP4"
      [] p = "d.mp4" -> ".mp4"
      [] OTHER -> ".txt"

\* str.lower on the suffixes above
Lower(s) == IF s = ".MP4" THEN ".mp4" ELSE s

EventSet ==
    [src_path : FilePaths, is_directory : {FALSE}]
        \cup [src_path : DirPaths, is_directory : {TRUE}]

\* on_created's two early returns
Ignored(e) == e.is_directory \/ Lower(Suffix(e.src_path)) # ".mp4"

Candidates == {p \in FilePaths : Lower(Suffix(p)) = ".mp4"}

NoPath == "none"

\* thread identities, as holders of queue_lock: the observer thread runs
\* on_created, the worker threads are 1..NumWorkers
Observer == 0
NoHolder == -1

VARIABLES
    mpc,              \* main: "start_server", "start_worker", "start_observer",
                      \* "loop", "observer_stop", "server_stop", "shutdown",
                      \* "server_close", "thread_join", "observer_join",
                      \* "returned"
    events,           \* the observer's event queue (emitter -> dispatcher)
    nemit,            \* events emitted so far
    stable,           \* per candidate: its size has been quiet for the window
    hpc,              \* observer thread inside on_created
    hpath,            \* on_created's path
    queue_lock,       \* the thread holding queue_lock, or NoHolder
    queued_files,     \* the de-dup set
    job_queue,        \* Queue's FIFO contents
    unfinished_tasks, \* Queue.unfinished_tasks
    wpc,              \* per worker thread: position in worker_loop
    wpath,            \* per worker thread: path
    wout,             \* per worker thread: how its last run_for_file ended
    putLog,           \* paths in the order of job_queue.put
    runLog            \* paths in the order run_for_file was invoked

qvars == <<mpc, events, nemit, stable, hpc, hpath, queue_lock, queued_files,
           job_queue, unfinished_tasks, wpc, wpath, wout, putLog, runLog>>

\* one call of wait_until_stable
VARIABLES
    now,              \* seconds since the call
    fexists,          \* the file is there
    fsize,            \* its size (the size it had last, while it is missing)
    lastChange,       \* when the size changed last
    stable_seconds,   \* the parameter
    wsp,              \* position: "stat", "sleep", "returned", "raised"
    last_size,
    stable_time,
    obsSize,          \* the size the latest sample saw
    obsRun,           \* how many of the latest samples in a row saw obsSize
    lastSeen          \* when a sample last saw a size other than the one before

svars == <<now, fexists, fsize, lastChange, stable_seconds, wsp, last_size,
           stable_time, obsSize, obsRun, lastSeen>>

\* one JobStatusClient and its post_status calls
VARIABLES
    api_base_url,
    max_retries,
    retry_delay,
    enabled,
    cpc,              \* position: "new", "idle", "attempt", "sleep", "done"
    attempt,          \* the loop variable
    trace,            \* what the call did: transport outcomes and sleeps
    slept,            \* seconds slept in the call
    result            \* "none", "True", "False"

cvars == <<api_base_url, max_retries, retry_delay, enabled, cpc, attempt,
           trace, slept, result>>

\* the JobStateManager singleton and the thread that calls its methods
VARIABLES
    instance,         \* JobStateManager._instance is set
    initialized,      \* its _initialized
    js,               \* its _state
    clk,              \* the wall clock, read by datetime.now
    lastOp,           \* the store method called last
    prev              \* _state as it was before that call

jvars == <<instance, initialized, js, clk, lastOp, prev>>

\* one connection of the status server and its StatusHandler
VARIABLES
    gpc,              \* position: "idle", "do_GET", "handle_status", "respond"
    gpath,            \* the request path
    snap,             \* handle_status's state: <<>> or <<the snapshot>>
    resp              \* the response sent: <<>> or <<[code, body]>>

gvars == <<gpc, gpath, snap, resp>>

\* one caller of a JobStatusClient, inside post_* or emit_event
VARIABLES
    epc,              \* 0: no call yet; i: at statement i of the post_*;
                      \* Len(PostSteps) + 1: the call is over
    call,             \* the call made: [fn, stage, percent, msg]
    inv,              \* the post_* it is or leads to, with its arguments
    event,            \* the JobStatus built: <<>> or <<the DTO>>
    ret,              \* what the call gave: "none", "True", "False", "raised"
    applied           \* the store method of this call has run

evars == <<epc, call, inv, event, ret, applied>>

\* one run_for_file
VARIABLES
    ppc,              \* "idle", "run", "call", "except", "failcall",
                      \* "finally", "returned", "raised"
    pstep,            \* the step of Pipeline the run is at
    current_percent,
    bound,            \* the locals of the summary that are bound
    exc,              \* the exception in flight or raised, "none" without
    lost,             \* a post_* of this run returned False
    runs              \* the number of runs started

pvars == <<ppc, pstep, current_percent, bound, exc, lost, runs>>

\* the threads inside JobStateManager: the worker's (its position is tpc)
\* and the request handler's (its position is gpc)
VARIABLES
    tpc,              \* the worker's thread: "new" .. "init_flag", "ready",
                      \* "mutating", "raised"
    cls_lock,         \* JobStateManager._lock: its holder, or "free"
    flagset,          \* the instance has its _initialized attribute
    lock_obj,         \* the lock object self._state_lock names: 0 before any
    held,             \* per thread, the state lock object it holds, 0: none
    pend,             \* the fields the mutator has still to assign
    goal,             \* the values it assigns to them
    rd,               \* the fields get_state has still to read
    copy,             \* the arguments of its JobState(...) read so far
    commits,          \* the records the store held when a method left it
    inits,            \* the number of assignments to self._state in __init__
    upd               \* a second thread calling mutators: its position, the
                      \* lock it holds, its pending assignments, its call

tvars == <<tpc, cls_lock, flagset, lock_obj, held, pend, goal, rd, copy, commits,
           inits, upd>>

\* main's StatusServer
VARIABLES
    srv,              \* status_server.server: "None" or "HTTPServer"
    sthread,          \* the server thread: "none", "unstarted", "serving", "exited"
    sock,             \* the listening socket: "none", "listening", "closed"
    startlog,         \* what main logged about the start: "none", "OSError",
                      \* "Exception"
    conns,            \* per client connection: "closed", "backlog" (connected,
                      \* waiting for accept), "accepted", "handled"
    cur               \* the connection the serve loop is handling, or "None"

mvars == <<srv, sthread, sock, startlog, conns, cur>>

vars == <<qvars, svars, cvars, jvars, gvars, evars, pvars, tvars, mvars>>

Range(s) == {s[i] : i \in 1..Len(s)}

Occurrences(p, s) == Cardinality({i \in 1..Len(s) : s[i] = p})

(* ------------------------- queue.Queue ------------------------------- *)

\* a LIFO get (queue.LifoQueue)
QueueGetLast(q) == [item |-> q[Len(q)], rest |-> SubSeq(q, 1, Len(q) - 1)]
\* Queue.get on a non-empty queue: the item returned and what stays
QueueGet(q) == [item |-> Head(q), rest |-> Tail(q)]

\* Queue.put
QueuePut(q, p) == Append(q, p)

(* ------------------------------ Init --------------------------------- *)

QInit ==
    /\ mpc = "start_worker"
    /\ events = <<>>
    /\ nemit = 0
    /\ stable = [p \in Candidates |-> FALSE]
    /\ hpc = "idle"
    /\ hpath = NoPath
    /\ queue_lock = NoHolder
    /\ queued_files = {}
    /\ job_queue = <<>>
    /\ unfinished_tasks = 0
    /\ wpc = [w \in Workers |-> "unstarted"]
    /\ wpath = [w \in Workers |-> NoPath]
    /\ wout = [w \in Workers |-> "none"]
    /\ putLog = <<>>
    /\ runLog = <<>>

\* wait_until_stable is not running
SIdle ==
    /\ now = 0
    /\ fexists = FALSE
    /\ fsize = 0
    /\ lastChange = 0
    /\ stable_seconds = 0
    /\ wsp = "idle"
    /\ last_size = -1
    /\ stable_time = 0
    /\ obsSize = -1
    /\ obsRun = 0
    /\ lastSeen = 0

\* no client has been constructed
CIdle ==
    /\ api_base_url = "None"
    /\ max_retries = 0
    /\ retry_delay = 0
    /\ enabled = FALSE
    /\ cpc = "new"
    /\ attempt = 0
    /\ trace = <<>>
    /\ slept = 0
    /\ result = "none"

(* ------------------------- JobState, JobStateManager ----------------- *)

\* Python's None, for the optional strings
None == "None"

\* None, for the optional datetime started_at
NoTime == -1

\* JobState(job_id=None, ..., stage="Idle", percent=0, ..., is_running=False)
IdleState(t) ==
    [job_id |-> None, file_name |-> None, stage |-> "Idle", percent |-> 0,
     started_at |-> NoTime, last_updated_at |-> t, error_message |-> None,
     is_running |-> FALSE]

\* no JobStateManager has been constructed
\* the last store method called and its arguments
Op(name, s1, s2, n) == [name |-> name, s1 |-> s1, s2 |-> s2, n |-> n]

JIdle ==
    /\ instance = FALSE
    /\ initialized = FALSE
    /\ js = IdleState(0)
    /\ clk = 0
    /\ lastOp = Op("none", None, None, 0)
    /\ prev = IdleState(0)

\* a call of the client, and none
Invocation(fn, job, stage, percent, msg) ==
    [fn |-> fn, job |-> job, stage |-> stage, percent |-> percent, msg |-> msg]

NoCall == Invocation("none", [id |-> None, name |-> None], None, 0, None)

\* no call of a client was made
EIdle ==
    /\ epc = 0
    /\ call = NoCall
    /\ inv = NoCall
    /\ event = <<>>
    /\ ret = "none"
    /\ applied = FALSE

\* no run of the pipeline was started
PIdle ==
    /\ ppc = "idle"
    /\ pstep = 0
    /\ current_percent = 0
    /\ bound = {}
    /\ exc = "none"
    /\ lost = FALSE
    /\ runs = 0

Threads == {"worker", "handler"}

\* the record get_state starts from: nothing read yet
Blank ==
    [job_id |-> None, file_name |-> None, stage |-> None, percent |-> 0,
     started_at |-> NoTime, last_updated_at |-> NoTime, error_message |-> None,
     is_running |-> FALSE]

\* the second mutating thread, outside every store method
NoUpdater ==
    [pc |-> "ready", held |-> 0, pend |-> <<>>, goal |-> Blank, prev |-> Blank,
     op |-> Op("none", None, None, 0)]

\* no thread is inside JobStateManager, which is constructed
TIdle ==
    /\ tpc = "ready"
    /\ cls_lock = "free"
    /\ flagset = TRUE
    /\ lock_obj = 1
    /\ held = [t \in Threads |-> 0]
    /\ pend = <<>>
    /\ goal = Blank
    /\ rd = <<>>
    /\ copy = Blank
    /\ commits = <<>>
    /\ inits = 1
    /\ upd = NoUpdater

Conns == {"A", "B"}

\* main has not started a status server
MIdle ==
    /\ srv = None
    /\ sthread = "none"
    /\ sock = "none"
    /\ startlog = "none"
    /\ conns = [c \in Conns |-> "closed"]
    /\ cur = None

\* no request is being served
GIdle ==
    /\ gpc = "idle"
    /\ gpath = ""
    /\ snap = <<>>
    /\ resp = <<>>

(* ------------------------------ main --------------------------------- *)

\* worker = threading.Thread(target=worker_loop, daemon=True); worker.start()
MainStartWorker ==
    /\ mpc = "start_worker"
    /\ mpc' = "start_observer"
    /\ wpc' = [w \in Workers |-> "get"]
    /\ UNCHANGED <<tvars, mvars, jvars, gvars, evars, pvars, svars, cvars, events, nemit, stable, hpc, hpath, queue_lock, queued_files,
                   job_queue, unfinished_tasks, wpath, wout, putLog, runLog>>

\* observer.schedule(event_handler, INPUT_DIR); observer.start()
MainStartObserver ==
    /\ mpc = "start_observer"
    /\ mpc' = "loop"
    /\ UNCHANGED <<tvars, mvars, jvars, gvars, evars, pvars, svars, cvars, events, nemit, stable, hpc, hpath, queue_lock, queued_files,
                   job_queue, unfinished_tasks, wpc, wpath, wout, putLog, runLog>>

(* --------------------- environment of the watcher -------------------- *)

\* the observer's emitter sees a new directory entry and queues an event
Emit(e) ==
    /\ mpc = "loop"
    /\ nemit < MaxEvents
    /\ events' = Append(events, e)
    /\ nemit' = nemit + 1
    /\ UNCHANGED <<tvars, mvars, jvars, gvars, evars, pvars, svars, cvars, mpc, stable, hpc, hpath, queue_lock, queued_files,
                   job_queue, unfinished_tasks, wpc, wpath, wout, putLog, runLog>>

\* the writer of file p pauses or resumes: the size is quiet, or changes again
FileQuiet(p) ==
    /\ stable' = [stable EXCEPT ![p] = ~stable[p]]
    /\ UNCHANGED <<tvars, mvars, jvars, gvars, evars, pvars, svars, cvars, mpc, events, nemit, hpc, hpath, queue_lock, queued_files,
                   job_queue, unfinished_tasks, wpc, wpath, wout, putLog, runLog>>

(* --------------- the observer thread: VODHandler.on_created ---------- *)

\* the observer dispatches one event at a time: the next event is taken
\* only when on_created has returned
DispatchIgnored ==
    /\ mpc = "loop"
    /\ hpc = "idle"
    /\ events # <<>>
    /\ Ignored(Head(events))
    /\ events' = Tail(events)
    /\ UNCHANGED <<tvars, mvars, jvars, gvars, evars, pvars, svars, cvars, mpc, nemit, stable, hpc, hpath, queue_lock, queued_files,
                   job_queue, unfinished_tasks, wpc, wpath, wout, putLog, runLog>>

DispatchCandidate ==
    /\ mpc = "loop"
    /\ hpc = "idle"
    /\ events # <<>>
    /\ ~Ignored(Head(events))
    /\ events' = Tail(events)
    /\ hpath' = Head(events).src_path
    /\ hpc' = "wait"
    /\ UNCHANGED <<tvars, mvars, jvars, gvars, evars, pvars, svars, cvars, mpc, nemit, stable, queue_lock, queued_files,
                   job_queue, unfinished_tasks, wpc, wpath, wout, putLog, runLog>>

\* wait_until_stable(path, stable_seconds=10) returns once the size has been
\* quiet for the window, and not before (StableSpec has the sampling loop)
WaitReturn ==
    /\ hpc = "wait"
    /\ stable[hpath]
    /\ hpc' = "lock"
    /\ UNCHANGED <<tvars, mvars, jvars, gvars, evars, pvars, svars, cvars, mpc, events, nemit, stable, hpath, queue_lock, queued_files,
                   job_queue, unfinished_tasks, wpc, wpath, wout, putLog, runLog>>

\* with queue_lock:
HandlerLock ==
    /\ hpc = "lock"
    /\ queue_lock = NoHolder
    /\ queue_lock' = Observer
    /\ hpc' = "check"
    /\ UNCHANGED <<tvars, mvars, jvars, gvars, evars, pvars, svars, cvars, mpc, events, nemit, stable, hpath, queued_files,
                   job_queue, unfinished_tasks, wpc, wpath, wout, putLog, runLog>>

\* an on_created without the membership test
IsQueuedNever(p, s) == FALSE
\* if path in queued_files
IsQueued(p, s) == p \in s

HandlerCheck ==
    /\ hpc = "check"
    /\ hpc' = IF IsQueued(hpath, queued_files) THEN "skip" ELSE "add"
    /\ UNCHANGED <<tvars, mvars, jvars, gvars, evars, pvars, svars, cvars, mpc, events, nemit, stable, hpath, queue_lock, queued_files,
                   job_queue, unfinished_tasks, wpc, wpath, wout, putLog, runLog>>

\* log "already queued, skipping duplicate"; return (leaves the with block)
HandlerSkip ==
    /\ hpc = "skip"
    /\ queue_lock' = NoHolder
    /\ hpc' = "idle"
    /\ UNCHANGED <<tvars, mvars, jvars, gvars, evars, pvars, svars, cvars, mpc, events, nemit, stable, hpath, queued_files,
                   job_queue, unfinished_tasks, wpc, wpath, wout, putLog, runLog>>

\* queued_files.add(path)
HandlerAdd ==
    /\ hpc = "add"
    /\ queued_files' = queued_files \cup {hpath}
    /\ hpc' = "put"
    /\ UNCHANGED <<tvars, mvars, jvars, gvars, evars, pvars, svars, cvars, mpc, events, nemit, stable, hpath, queue_lock,
                   job_queue, unfinished_tasks, wpc, wpath, wout, putLog, runLog>>

\* job_queue.put(path); log; leaves the with block
HandlerPut ==
    /\ hpc = "put"
    /\ job_queue' = QueuePut(job_queue, hpath)
    /\ unfinished_tasks' = unfinished_tasks + 1
    /\ putLog' = Append(putLog, hpath)
    /\ queue_lock' = NoHolder
    /\ hpc' = "idle"
    /\ UNCHANGED <<tvars, mvars, jvars, gvars, evars, pvars, svars, cvars, mpc, events, nemit, stable, hpath, queued_files,
                   wpc, wpath, wout, runLog>>

(* ----------------------- the worker: worker_loop --------------------- *)

\* path = job_queue.get()
WorkerGet(w) ==
    /\ wpc[w] = "get"
    /\ job_queue # <<>>
    /\ wpath' = [wpath EXCEPT ![w] = QueueGet(job_queue).item]
    /\ job_queue' = QueueGet(job_queue).rest
    /\ wout' = [wout EXCEPT ![w] = "none"]
    /\ wpc' = [wpc EXCEPT ![w] = "dequeued"]
    /\ UNCHANGED <<tvars, mvars, jvars, gvars, evars, pvars, svars, cvars, mpc, events, nemit, stable, hpc, hpath, queue_lock,
                   queued_files, unfinished_tasks, putLog, runLog>>

\* log "Dequeued job"; run_for_file(path) is entered
WorkerRun(w) ==
    /\ wpc[w] = "dequeued"
    /\ runLog' = Append(runLog, wpath[w])
    /\ wpc' = [wpc EXCEPT ![w] = "running"]
    /\ UNCHANGED <<tvars, mvars, jvars, gvars, evars, pvars, svars, cvars, mpc, events, nemit, stable, hpc, hpath, queue_lock,
                   queued_files, job_queue, unfinished_tasks, wpath, wout, putLog>>

\* run_for_file returns ("Finished job" is logged) or raises an Exception
RunEnds(w, o) ==
    /\ wpc[w] = "running"
    /\ wout' = [wout EXCEPT ![w] = o]
    /\ wpc' = [wpc EXCEPT ![w] = IF o = "raised" THEN "except" ELSE "finally"]
    /\ UNCHANGED <<tvars, mvars, jvars, gvars, evars, pvars, svars, cvars, mpc, events, nemit, stable, hpc, hpath, queue_lock,
                   queued_files, job_queue, unfinished_tasks, wpath, putLog, runLog>>

\* except Exception as e: log(...)
WorkerExcept(w) ==
    /\ wpc[w] = "except"
    /\ wpc' = [wpc EXCEPT ![w] = "finally"]
    /\ UNCHANGED <<tvars, mvars, jvars, gvars, evars, pvars, svars, cvars, mpc, events, nemit, stable, hpc, hpath, queue_lock,
                   queued_files, job_queue, unfinished_tasks, wpath, wout,
                   putLog, runLog>>

\* a try statement without the except clause
PropagatesRaised(o) == o = "raised"
\* whether the exception of the run is still propagating after the try
\* statement: the except clause catches every Exception
Propagates(o) == FALSE

\* a discard at the end of the try body instead of in the finally
DiscardOnSuccessOnly(o) == o = "returned"
\* whether the discard runs for a run that ended as o: it is in the finally
Discards(o) == TRUE

\* finally: with queue_lock:
WorkerLock(w) ==
    /\ wpc[w] = "finally"
    /\ queue_lock = NoHolder
    /\ queue_lock' = w
    /\ wpc' = [wpc EXCEPT ![w] = "discard"]
    /\ UNCHANGED <<tvars, mvars, jvars, gvars, evars, pvars, svars, cvars, mpc, events, nemit, stable, hpc, hpath,
                   queued_files, job_queue, unfinished_tasks, wpath, wout,
                   putLog, runLog>>

\* queued_files.discard(path); leaves the with block
WorkerDiscard(w) ==
    /\ wpc[w] = "discard"
    /\ queued_files' = IF Discards(wout[w]) THEN queued_files \ {wpath[w]}
                       ELSE queued_files
    /\ queue_lock' = NoHolder
    /\ wpc' = [wpc EXCEPT ![w] = "task_done"]
    /\ UNCHANGED <<tvars, mvars, jvars, gvars, evars, pvars, svars, cvars, mpc, events, nemit, stable, hpc, hpath,
                   job_queue, unfinished_tasks, wpath, wout, putLog, runLog>>

\* job_queue.task_done(); back to the head of the while loop
WorkerTaskDone(w) ==
    /\ wpc[w] = "task_done"
    /\ unfinished_tasks' = unfinished_tasks - 1
    /\ wpc' = [wpc EXCEPT ![w] = IF Propagates(wout[w]) THEN "dead" ELSE "get"]
    /\ UNCHANGED <<tvars, mvars, jvars, gvars, evars, pvars, svars, cvars, mpc, events, nemit, stable, hpc, hpath, queue_lock,
                   queued_files, job_queue, wpath, wout, putLog, runLog>>

HandlerNext ==
    \/ DispatchIgnored
    \/ DispatchCandidate
    \/ WaitReturn
    \/ HandlerLock
    \/ HandlerCheck
    \/ HandlerSkip
    \/ HandlerAdd
    \/ HandlerPut

WorkerNext(w) ==
    \/ WorkerGet(w)
    \/ WorkerRun(w)
    \/ \E o \in {"returned", "raised"} : RunEnds(w, o)
    \/ WorkerExcept(w)
    \/ WorkerLock(w)
    \/ WorkerDiscard(w)
    \/ WorkerTaskDone(w)

QNext ==
    \/ MainStartWorker
    \/ MainStartObserver
    \/ \E e \in EventSet : Emit(e)
    \/ \E p \in Candidates : FileQuiet(p)
    \/ HandlerNext
    \/ \E w \in Workers : WorkerNext(w)

Init == QInit /\ SIdle /\ CIdle /\ JIdle /\ GIdle /\ EIdle /\ PIdle /\ TIdle /\ MIdle

Spec == Init /\ [][QNext]_vars

\* the scheduler runs every thread that can run: the observer thread leaves
\* its with block, the worker goes on, and a worker that keeps finding
\* queue_lock free at times gets it; a run_for_file in progress ends
FairSpec ==
    /\ Init
    /\ [][QNext]_vars
    /\ WF_vars(HandlerNext)
    /\ \A w \in Workers : WF_vars(WorkerNext(w)) /\ SF_vars(WorkerLock(w))

(* ====================== wait_until_stable ============================ *)

Sizes == 0..MaxSize

\* on_created passes stable_seconds=10 (also the default); smaller windows
\* are other calls of the same function
StableSecondsDefault == 10
StableChoices == {1, 2, StableSecondsDefault}

StableInit ==
    /\ QInit
    /\ CIdle
    /\ JIdle
    /\ GIdle
    /\ EIdle
    /\ PIdle
    /\ TIdle
    /\ MIdle
    /\ now = 0
    /\ fexists \in BOOLEAN
    /\ fsize \in Sizes
    /\ lastChange = 0
    /\ stable_seconds \in StableChoices
    /\ wsp = "stat"
    /\ last_size = -1
    /\ stable_time = 0
    /\ obsSize = -1
    /\ obsRun = 0
    /\ lastSeen = 0

Polling == wsp \in {"stat", "sleep"}

\* the environment: the file is written to, removed, or put (back) in place
FileWrite(s) ==
    /\ Polling
    /\ fexists
    /\ s # fsize
    /\ fsize' = s
    /\ lastChange' = now
    /\ UNCHANGED <<tvars, mvars, jvars, gvars, evars, pvars, qvars, cvars, now, fexists, stable_seconds, wsp, last_size,
                   stable_time, obsSize, obsRun, lastSeen>>

FileDelete ==
    /\ Polling
    /\ fexists
    /\ fexists' = FALSE
    /\ UNCHANGED <<tvars, mvars, jvars, gvars, evars, pvars, qvars, cvars, now, fsize, lastChange, stable_seconds, wsp,
                   last_size, stable_time, obsSize, obsRun, lastSeen>>

FileCreate(s) ==
    /\ Polling
    /\ ~fexists
    /\ fexists' = TRUE
    /\ fsize' = s
    /\ lastChange' = IF s # fsize THEN now ELSE lastChange
    /\ UNCHANGED <<tvars, mvars, jvars, gvars, evars, pvars, qvars, cvars, now, stable_seconds, wsp, last_size,
                   stable_time, obsSize, obsRun, lastSeen>>

\* a stat whose FileNotFoundError is not caught
MissingRaises(st) == [wsp |-> "raised", stable_time |-> st]
\* except FileNotFoundError: time.sleep(1); continue
Missing(st) == [wsp |-> "sleep", stable_time |-> st]

\* path.stat() raises FileNotFoundError
SampleMissing ==
    /\ wsp = "stat"
    /\ ~fexists
    /\ wsp' = Missing(stable_time).wsp
    /\ stable_time' = Missing(stable_time).stable_time
    /\ UNCHANGED <<tvars, mvars, jvars, gvars, evars, pvars, qvars, cvars, now, fexists, fsize, lastChange,
                   stable_seconds, last_size, obsSize, obsRun, lastSeen>>

\* an else branch that keeps the count
ComparedNoReset(size, last, st) ==
    IF size = last THEN [last_size |-> last, stable_time |-> st + 1]
    ELSE [last_size |-> size, stable_time |-> st]
\* if size == last_size: stable_time += 1 / else: stable_time = 0; last_size = size
Compared(size, last, st) ==
    IF size = last THEN [last_size |-> last, stable_time |-> st + 1]
    ELSE [last_size |-> size, stable_time |-> 0]

\* if stable_time >= stable_seconds: return (only in the branch that counted)
Returns(size, last, st, n) == size = last /\ st >= n

\* size = path.stat().st_size and the comparison with last_size
SampleSize ==
    /\ wsp = "stat"
    /\ fexists
    /\ last_size' = Compared(fsize, last_size, stable_time).last_size
    /\ stable_time' = Compared(fsize, last_size, stable_time).stable_time
    /\ wsp' = IF Returns(fsize, last_size, stable_time', stable_seconds)
              THEN "returned" ELSE "sleep"
    /\ obsSize' = fsize
    /\ obsRun' = IF fsize = obsSize THEN obsRun + 1 ELSE 1
    /\ lastSeen' = IF fsize = obsSize THEN lastSeen ELSE now
    /\ UNCHANGED <<tvars, mvars, jvars, gvars, evars, pvars, qvars, cvars, now, fexists, fsize, lastChange, stable_seconds>>

\* time.sleep(1), on either path back to the head of the loop
Sleep ==
    /\ wsp = "sleep"
    /\ now < MaxTime
    /\ now' = now + 1
    /\ wsp' = "stat"
    /\ UNCHANGED <<tvars, mvars, jvars, gvars, evars, pvars, qvars, cvars, fexists, fsize, lastChange, stable_seconds,
                   last_size, stable_time, obsSize, obsRun, lastSeen>>

StableNext ==
    \/ \E s \in Sizes : FileWrite(s)
    \/ FileDelete
    \/ \E s \in Sizes : FileCreate(s)
    \/ SampleMissing
    \/ SampleSize
    \/ Sleep

StableSpec == StableInit /\ [][StableNext]_vars

(* ===================== claims on wait_until_stable =================== *)

C8_MissingSampleIsNotYetStable ==
    /\ [](wsp # "raised")
    /\ [][(wsp = "stat" /\ ~fexists /\ wsp' # wsp)
            => (wsp' = "sleep" /\ stable_time' = stable_time
                   /\ last_size' = last_size)]_vars

\* the call returned later than its window after the last seen change: some
\* samples in between found the file missing, and neither counted nor reset
C8_Witness ==
    /\ wsp = "returned"
    /\ now > lastSeen + stable_seconds
    /\ stable_time = stable_seconds
    /\ obsRun = stable_seconds + 1

(* ================== JobStatusClient.post_status ====================== *)

\* api_base_url: None, empty, blank, or a URL
UrlChoices == {"None", "", "   ", "http://localhost:5000"}

\* str.strip on the URLs above
Strip(u) == IF u = "   " THEN "" ELSE u

StrLen(u) == IF u = "" THEN 0 ELSE IF u = "   " THEN 3 ELSE 21

\* a test of the length without the strip
IsApiUrlValidNoStrip(u) == u # "None" /\ StrLen(u) > 0
\* _is_api_url_valid
IsApiUrlValid(u) == u # "None" /\ StrLen(Strip(u)) > 0

\* what one urlopen call can do: return a response (urlopen raises HTTPError
\* for the error statuses), or raise HTTPError, URLError, or something else
Responses == [kind : {"response"}, status : {200, 201, 202, 204}]
Failures ==
    [kind : {"HTTPError"}, status : {404, 500}]
        \cup [kind : {"URLError", "Exception"}, status : {0}]
Outcomes == Responses \cup Failures

SleepEntry == [kind |-> "sleep", status |-> 0]

ClientInit ==
    /\ QInit
    /\ SIdle
    /\ JIdle
    /\ GIdle
    /\ EIdle
    /\ PIdle
    /\ TIdle
    /\ MIdle
    /\ api_base_url \in UrlChoices
    /\ max_retries \in 0..MaxRetries
    /\ retry_delay \in {1, 2}
    /\ enabled = IsApiUrlValid(api_base_url)
    /\ cpc = "idle"
    /\ attempt = 0
    /\ trace = <<>>
    /\ slept = 0
    /\ result = "none"

\* for attempt in range(1, self.max_retries + 1)
InRange(a, n) == 1 <= a /\ a <= n

\* a test for status 200 alone
IsSuccessOnly200(o) == o.kind = "response" /\ o.status = 200
\* if response.status in (200, 201, 202)
IsSuccess(o) == o.kind = "response" /\ o.status \in {200, 201, 202}

\* a sleep after every failed attempt, the last one too
SleepsAfterEvery(a, n) == TRUE
\* if attempt < self.max_retries: time.sleep(self.retry_delay)
SleepsAfter(a, n) == a < n

\* except clauses for HTTPError and URLError alone
CaughtUrlErrorsOnly(o) == o.kind \in {"HTTPError", "URLError"}
\* except HTTPError, except URLError, except Exception
Caught(o) == o.kind \in {"HTTPError", "URLError", "Exception"}

\* post_status is called: the disabled client returns False at once, the
\* enabled one enters the loop (or falls through it when the range is empty)
PostStatus ==
    /\ cpc = "idle"
    /\ attempt' = IF enabled /\ InRange(1, max_retries) THEN 1 ELSE attempt
    /\ cpc' = IF enabled /\ InRange(1, max_retries) THEN "attempt" ELSE "done"
    /\ result' = IF enabled /\ InRange(1, max_retries) THEN result ELSE "False"
    /\ UNCHANGED <<tvars, mvars, jvars, gvars, evars, pvars, qvars, svars, api_base_url, max_retries, retry_delay,
                   enabled, trace, slept>>

\* one pass of the loop body up to the sleep: urlopen with outcome o
Attempt(o) ==
    /\ cpc = "attempt"
    /\ trace' = Append(trace, o)
    /\ IF IsSuccess(o)
       THEN /\ cpc' = "done"
            /\ result' = "True"
            /\ UNCHANGED attempt
       ELSE IF o.kind # "response" /\ ~Caught(o)
       THEN /\ cpc' = "raised"
            /\ UNCHANGED <<attempt, result>>
       ELSE IF SleepsAfter(attempt, max_retries)
       THEN /\ cpc' = "sleep"
            /\ UNCHANGED <<attempt, result>>
       ELSE IF InRange(attempt + 1, max_retries)
       THEN /\ cpc' = "attempt"
            /\ attempt' = attempt + 1
            /\ UNCHANGED result
       ELSE /\ cpc' = "done"
            /\ result' = "False"
            /\ UNCHANGED attempt
    /\ UNCHANGED <<tvars, mvars, jvars, gvars, evars, pvars, qvars, svars, api_base_url, max_retries, retry_delay,
                   enabled, slept>>

\* time.sleep(self.retry_delay), then the next pass, or the end of the loop
RetrySleep ==
    /\ cpc = "sleep"
    /\ trace' = Append(trace, SleepEntry)
    /\ slept' = slept + retry_delay
    /\ IF InRange(attempt + 1, max_retries)
       THEN /\ cpc' = "attempt"
            /\ attempt' = attempt + 1
            /\ UNCHANGED result
       ELSE /\ cpc' = "done"
            /\ result' = "False"
            /\ UNCHANGED attempt
    /\ UNCHANGED <<tvars, mvars, jvars, gvars, evars, pvars, qvars, svars, api_base_url, max_retries, retry_delay, enabled>>

ClientNext ==
    \/ PostStatus
    \/ \E o \in Outcomes : Attempt(o)
    \/ RetrySleep

ClientSpec == ClientInit /\ [][ClientNext]_vars

(* ======================= claims on post_status ======================= *)

Attempts == {i \in 1..Len(trace) : trace[i] # SleepEntry}

Accepted(o) == o.kind = "response" /\ o.status \in {200, 201, 202}

\* C9: an enabled client with max_retries = n >= 1 whose transport failed at
\* every attempt has, when post_status is done, made exactly n attempts with
\* one sleep of retry_delay between two attempts and none after the last,
\* and returned False.
C9_RetryBound ==
    (cpc = "done" /\ enabled /\ max_retries >= 1
        /\ \A i \in Attempts : ~Accepted(trace[i]))
        => /\ Cardinality(Attempts) = max_retries
           /\ Len(trace) = 2 * max_retries - 1
           /\ \A i \in 1..Len(trace) : (trace[i] = SleepEntry) <=> (i % 2 = 0)
           /\ slept = (max_retries - 1) * retry_delay
           /\ result = "False"

C9_Witness ==
    /\ cpc = "done"
    /\ enabled
    /\ max_retries = 3
    /\ Len(trace) = 5
    /\ trace[1].kind = "HTTPError"
    /\ trace[3].kind = "Exception"
    /\ trace[5].kind = "response"
    /\ result = "False"

\* C10: an attempt answered 200, 201 or 202 is the last thing the call does
\* and the call returns True; a call that returns False as an enabled client
\* has used all its attempts, whether they failed with another status code or
\* with an error; and True is returned only for an accepted answer.
C10_SuccessEndsTheCall ==
    /\ \A i \in 1..Len(trace) :
          Accepted(trace[i]) => (i = Len(trace) /\ cpc = "done" /\ result = "True")
    /\ (cpc = "done" /\ result = "True")
          => (trace # <<>> /\ Accepted(trace[Len(trace)]))
    /\ (cpc = "done" /\ result = "False" /\ enabled /\ max_retries >= 1)
          => Cardinality(Attempts) = max_retries

C10_Witness ==
    /\ cpc = "done"
    /\ result = "True"
    /\ Len(trace) = 3
    /\ trace[1] = [kind |-> "response", status |-> 204]
    /\ trace[3] = [kind |-> "response", status |-> 202]
    /\ max_retries = 3

(* ================= JobStateManager and the status server ============= *)

\* a __init__ without the _initialized test
ConstructedAlways(s, inited, t) == IdleState(t)
\* JobStateManager(): __new__ returns the one instance and __init__ sets
\* _state only when _initialized is false; the _state after the call
Constructed(s, inited, t) == IF inited THEN s ELSE IdleState(t)

\* get_state: the copy, field by field
GetState(s) ==
    [job_id |-> s.job_id, file_name |-> s.file_name, stage |-> s.stage,
     percent |-> s.percent, started_at |-> s.started_at,
     last_updated_at |-> s.last_updated_at,
     error_message |-> s.error_message, is_running |-> s.is_running]

\* a start_job that leaves the error message of the job before
StartJobKeepsError(s, id, name, t) ==
    [s EXCEPT !.job_id = id, !.file_name = name, !.stage = "Starting",
              !.percent = 0, !.started_at = t, !.last_updated_at = t,
              !.is_running = TRUE]
StartJob(s, id, name, t) ==
    [s EXCEPT !.job_id = id, !.file_name = name, !.stage = "Starting",
              !.percent = 0, !.started_at = t, !.last_updated_at = t,
              !.error_message = None, !.is_running = TRUE]

\* an update_stage that sets the stage alone
UpdateStageKeepsPercent(s, stage, percent, t) ==
    [s EXCEPT !.stage = stage, !.last_updated_at = t]
UpdateStage(s, stage, percent, t) ==
    [s EXCEPT !.stage = stage, !.percent = percent, !.last_updated_at = t]

\* an update_progress that stamps the time only
UpdateProgressStampsOnly(s, percent, t) == [s EXCEPT !.last_updated_at = t]
UpdateProgress(s, percent, t) ==
    [s EXCEPT !.percent = percent, !.last_updated_at = t]

\* a complete_job that leaves percent alone
CompleteJobKeepsPercent(s, t) ==
    [s EXCEPT !.stage = "Completed", !.last_updated_at = t, !.is_running = FALSE]
\* a complete_job that also clears the job's identity
CompleteJobClearsJob(s, t) ==
    [s EXCEPT !.job_id = None, !.file_name = None, !.stage = "Completed",
              !.percent = 100, !.last_updated_at = t, !.is_running = FALSE]
CompleteJob(s, t) ==
    [s EXCEPT !.stage = "Completed", !.percent = 100, !.last_updated_at = t,
              !.is_running = FALSE]

\* a fail_job that also clears the percent
FailJobClearsPercent(s, msg, t) ==
    [s EXCEPT !.stage = "Failed", !.percent = 0, !.error_message = msg,
              !.last_updated_at = t, !.is_running = FALSE]
\* a fail_job that leaves is_running alone
FailJobStaysRunning(s, msg, t) ==
    [s EXCEPT !.stage = "Failed", !.error_message = msg, !.last_updated_at = t]
FailJob(s, msg, t) ==
    [s EXCEPT !.stage = "Failed", !.error_message = msg, !.last_updated_at = t,
              !.is_running = FALSE]

\* a reset_to_idle that leaves the percent alone
ResetToIdleKeepsPercent(s, t) ==
    [s EXCEPT !.job_id = None, !.file_name = None, !.stage = "Idle",
              !.started_at = NoTime, !.last_updated_at = t,
              !.error_message = None, !.is_running = FALSE]
ResetToIdle(s, t) ==
    [s EXCEPT !.job_id = None, !.file_name = None, !.stage = "Idle",
              !.percent = 0, !.started_at = NoTime, !.last_updated_at = t,
              !.error_message = None, !.is_running = FALSE]

\* the arguments the callers pass
Jobs == {[id |-> "J1", name |-> "a.mp4"], [id |-> "J2", name |-> "b.mp4"]}
StageLabels == {"Processing", "Scene Detection", "Failed"}
Percents == {20, 50}
Messages == {"tool crashed", "disk full"}

\* a store method that returns with the lock still held
HeldAcrossReturn(l) == l
\* the state lock a thread holds when a store method has returned: the with
\* block releases it
HeldAfterMutator(l) == 0

\* self._state_lock can be acquired: no thread holds it
StateLockFree == \A t \in DOMAIN held : held[t] # lock_obj

\* manager = JobStateManager()
NewManager ==
    /\ instance' = TRUE
    /\ initialized' = TRUE
    /\ js' = Constructed(js, initialized, clk)
    /\ UNCHANGED <<tvars, mvars, qvars, svars, cvars, evars, pvars, gvars, clk, lastOp, prev>>

\* a store method called through a handle; datetime.now is read in it
Mutate(op, after) ==
    /\ initialized
    /\ clk < MaxOps
    /\ prev' = js
    /\ js' = after
    /\ lastOp' = op
    /\ clk' = clk + 1
    /\ UNCHANGED <<tvars, mvars, qvars, svars, cvars, evars, pvars, gvars, instance, initialized>>

DoStart(j) == Mutate(Op("start", j.id, j.name, 0), StartJob(js, j.id, j.name, clk))

DoUpdateStage(st, p) ==
    Mutate(Op("update_stage", st, None, p), UpdateStage(js, st, p, clk))

DoUpdateProgress(p) ==
    Mutate(Op("update_progress", None, None, p), UpdateProgress(js, p, clk))

DoComplete == Mutate(Op("complete", None, None, 0), CompleteJob(js, clk))

DoFail(m) == Mutate(Op("fail", m, None, 0), FailJob(js, m, clk))

DoReset == Mutate(Op("reset_to_idle", None, None, 0), ResetToIdle(js, clk))

(* ------------------------- StatusHandler ----------------------------- *)

RequestPaths == {"/status", "/", "/status/", "/status?job=J1"}

\* datetime.isoformat of an aware UTC datetime, and .replace('+00:00', 'Z')
IsoFormat(t) == [t |-> t, suffix |-> "+00:00"]
ReplaceZ(ts) == IF ts.suffix = "+00:00" THEN [ts EXCEPT !.suffix = "Z"] ELSE ts

\* a to_dict that leaves the error message out
ToDictNoError(s) ==
    [jobId |-> s.job_id, fileName |-> s.file_name, stage |-> s.stage,
     percent |-> s.percent, timestamp |-> ReplaceZ(IsoFormat(s.last_updated_at)),
     errorMessage |-> None]
\* JobState.to_dict
ToDict(s) ==
    [jobId |-> s.job_id, fileName |-> s.file_name, stage |-> s.stage,
     percent |-> s.percent, timestamp |-> ReplaceZ(IsoFormat(s.last_updated_at)),
     errorMessage |-> s.error_message]

\* a test for the stage "Idle" instead of "not Failed"
ShownAsIdleOnlyWhenIdle(s) == ~s.is_running /\ s.stage = "Idle"
\* if not state.is_running and state.stage != "Failed"
ShownAsIdle(s) == ~s.is_running /\ s.stage # "Failed"

\* the response dictionary of handle_status
StatusBody(s) ==
    IF ShownAsIdle(s)
    THEN [jobId |-> None, fileName |-> None, stage |-> "Idle", percent |-> 0,
          timestamp |-> IsoFormat(s.last_updated_at), errorMessage |-> None]
    ELSE ToDict(s)

\* a test that also takes the path with a trailing slash
IsStatusPathLoose(p) == p \in {"/status", "/status/"}
\* if self.path == "/status"
IsStatusPath(p) == p = "/status"

\* a GET request arrives on the connection
Request(p) ==
    /\ gpc = "idle"
    /\ gpc' = "do_GET"
    /\ gpath' = p
    /\ snap' = <<>>
    /\ resp' = <<>>
    /\ UNCHANGED <<tvars, mvars, qvars, svars, cvars, evars, pvars, jvars>>

\* do_GET, the other paths: send_error(404, "Not Found")
NotFound ==
    /\ gpc = "do_GET"
    /\ ~IsStatusPath(gpath)
    /\ resp' = <<[code |-> 404, body |-> <<>>]>>
    /\ gpc' = "idle"
    /\ UNCHANGED <<tvars, mvars, qvars, svars, cvars, evars, pvars, jvars, gpath, snap>>

\* do_GET, self.path == "/status": handle_status is entered
DoGetStatus ==
    /\ gpc = "do_GET"
    /\ IsStatusPath(gpath)
    /\ gpc' = "handle_status"
    /\ UNCHANGED <<tvars, mvars, qvars, svars, cvars, evars, pvars, jvars, gpath, snap, resp>>

\* state_manager = JobStateManager(); state = state_manager.get_state()
HandleStatus ==
    /\ gpc = "handle_status"
    /\ StateLockFree
    /\ instance' = TRUE
    /\ initialized' = TRUE
    /\ js' = Constructed(js, initialized, clk)
    /\ snap' = <<GetState(js')>>
    /\ gpc' = "respond"
    /\ UNCHANGED <<tvars, mvars, qvars, svars, cvars, evars, pvars, clk, lastOp, prev, gpath, resp>>

\* the response is built from the snapshot and sent with status 200
SendStatus ==
    /\ gpc = "respond"
    /\ resp' = <<[code |-> 200, body |-> <<StatusBody(snap[1])>>]>>
    /\ gpc' = "idle"
    /\ UNCHANGED <<tvars, mvars, qvars, svars, cvars, evars, pvars, jvars, gpath, snap>>

StoreInit ==
    QInit /\ SIdle /\ CIdle /\ JIdle /\ GIdle /\ EIdle /\ PIdle /\ TIdle /\ MIdle

StoreNext ==
    \/ NewManager
    \/ \E j \in Jobs : DoStart(j)
    \/ \E st \in StageLabels, p \in Percents : DoUpdateStage(st, p)
    \/ \E p \in Percents : DoUpdateProgress(p)
    \/ DoComplete
    \/ \E m \in Messages : DoFail(m)
    \/ DoReset
    \/ \E p \in RequestPaths : Request(p)
    \/ NotFound
    \/ DoGetStatus
    \/ HandleStatus
    \/ SendStatus

StoreSpec == StoreInit /\ [][StoreNext]_vars

(* ============== claims on the store and the status server ============ *)

\* C16: the snapshot taken after complete has is_running false, stage
\* "Completed" and percent 100, whatever the store held before.
C16_CompleteIsTerminal ==
    lastOp.name = "complete" =>
        /\ GetState(js).is_running = FALSE
        /\ GetState(js).stage = "Completed"
        /\ GetState(js).percent = 100

\* start, update_stage, update_progress, complete, from percent 20
C16_Witness ==
    /\ lastOp.name = "complete"
    /\ prev.is_running
    /\ prev.stage = "Scene Detection"
    /\ prev.percent = 20
    /\ prev.job_id = "J1"
    /\ js.percent = 100

\* C17: the snapshot taken after fail(msg) has is_running false, stage
\* "Failed" and error_message msg, whatever the store held before.
C17_FailIsTerminal ==
    lastOp.name = "fail" =>
        /\ GetState(js).is_running = FALSE
        /\ GetState(js).stage = "Failed"
        /\ GetState(js).error_message = lastOp.s1

\* a second failure, of a running job, with another message
C17_Witness ==
    /\ lastOp = Op("fail", "disk full", None, 0)
    /\ prev.is_running
    /\ prev.error_message = None
    /\ js.job_id = "J2"

Served == gpc = "idle" /\ resp # <<>> /\ snap # <<>>

\* C18: a GET /status whose snapshot has is_running false and a stage other
\* than "Failed" is answered 200 with stage "Idle", jobId, fileName and
\* errorMessage null and percent 0.
C18_IdleDisplay ==
    (Served /\ ~snap[1].is_running /\ snap[1].stage # "Failed")
        => /\ resp[1].code = 200
           /\ resp[1].body # <<>>
           /\ resp[1].body[1].stage = "Idle"
           /\ resp[1].body[1].jobId = None
           /\ resp[1].body[1].fileName = None
           /\ resp[1].body[1].percent = 0
           /\ resp[1].body[1].errorMessage = None

\* a completed job is shown as idle
C18_Witness ==
    /\ Served
    /\ snap[1].stage = "Completed"
    /\ snap[1].percent = 100
    /\ snap[1].job_id = "J1"
    /\ resp[1].body[1].stage = "Idle"

\* C19: a GET /status whose snapshot has is_running true, or the stage
\* "Failed", is answered 200 with the snapshot's job_id, file_name, stage,
\* percent and error_message.
C19_VerbatimDisplay ==
    (Served /\ (snap[1].is_running \/ snap[1].stage = "Failed"))
        => /\ resp[1].code = 200
           /\ resp[1].body # <<>>
           /\ resp[1].body[1].jobId = snap[1].job_id
           /\ resp[1].body[1].fileName = snap[1].file_name
           /\ resp[1].body[1].stage = snap[1].stage
           /\ resp[1].body[1].percent = snap[1].percent
           /\ resp[1].body[1].errorMessage = snap[1].error_message

\* a failed job is shown with its message
C19_Witness ==
    /\ Served
    /\ ~snap[1].is_running
    /\ snap[1].stage = "Failed"
    /\ resp[1].body[1].stage = "Failed"
    /\ resp[1].body[1].errorMessage = "tool crashed"
    /\ resp[1].body[1].percent = 50

\* C21: a GET for a path other than "/status" is answered 404, with no body
\* and without a snapshot of the store having been taken.
C21_OtherPathsNotFound ==
    (gpc = "idle" /\ resp # <<>> /\ gpath # "/status")
        => /\ resp[1].code = 404
           /\ resp[1].body = <<>>
           /\ snap = <<>>

\* "/status/" asked while a job has failed
C21_Witness ==
    /\ gpc = "idle"
    /\ gpath = "/status/"
    /\ resp # <<>>
    /\ resp[1].code = 404
    /\ js.stage = "Failed"
    /\ js.job_id = "J2"

\* C20: no step of the handler, for any path, changes a field of the store
\* (the steps of its JobStateManager() and get_state included).
C20_HandlerLeavesStore == [][gpc' # gpc => js' = js]_vars

\* a 404 and a 200 were served while a job was running
C20_Witness ==
    /\ gpc = "idle"
    /\ resp # <<>>
    /\ resp[1].code = 404
    /\ js.is_running
    /\ js.stage = "Processing"

(* ============ JobStatusClient.post_* and emit_event ================== *)

DefaultMaxRetries == 3
DefaultRetryDelay == 1

\* the configurations of the clients the callers construct
EventRetries == {1, 2}

\* the outcomes of urlopen the callers meet: accepted, answered with another
\* status, failed with an URLError, failed with another exception
EventOutcomes ==
    {o \in Outcomes : \/ o.kind = "response" /\ o.status \in {200, 204}
                      \/ o.kind \in {"URLError", "Exception"}}

\* a post_* that sends before it touches the store
PostStepsSendFirst == <<"create", "post", "mutate">>
\* the three statements of a post_*: the store method, JobStatus.create_*,
\* return self.post_status(status)
PostSteps == <<"mutate", "create", "post">>

Over == Len(PostSteps) + 1

\* the message passed on as it is
EffectiveMessageAsGiven(m) == m
\* error_message or "Unknown error"
EffectiveMessage(m) == IF m \in {None, ""} THEN "Unknown error" ELSE m

\* an emit_event whose last branch is always post_progress
ClassifyAlwaysProgress(c, s) ==
    IF c.stage = "Starting"
    THEN Invocation("post_started", c.job, None, 0, None)
    ELSE IF c.stage = "Completed"
    THEN Invocation("post_completed", c.job, None, 0, None)
    ELSE IF c.stage = "Failed"
    THEN Invocation("post_failed", c.job, None, c.percent, EffectiveMessage(c.msg))
    ELSE Invocation("post_progress", c.job, c.stage, c.percent, None)
\* emit_event: the post_* it calls and the arguments it passes
Classify(c, s) ==
    IF c.stage = "Starting"
    THEN Invocation("post_started", c.job, None, 0, None)
    ELSE IF c.stage = "Completed"
    THEN Invocation("post_completed", c.job, None, 0, None)
    ELSE IF c.stage = "Failed"
    THEN Invocation("post_failed", c.job, None, c.percent, EffectiveMessage(c.msg))
    ELSE IF GetState(s).stage # c.stage
    THEN Invocation("post_stage_changed", c.job, c.stage, c.percent, None)
    ELSE Invocation("post_progress", c.job, c.stage, c.percent, None)

\* the first statement of each post_*: the store after it
ApplyPost(i, s, t) ==
    CASE i.fn = "post_started" -> StartJob(s, i.job.id, i.job.name, t)
      [] i.fn = "post_progress" -> UpdateProgress(s, i.percent, t)
      [] i.fn = "post_stage_changed" -> UpdateStage(s, i.stage, i.percent, t)
      [] i.fn = "post_completed" -> CompleteJob(s, t)
      [] i.fn = "post_failed" -> FailJob(s, i.msg, t)

StoreOp(i) ==
    CASE i.fn = "post_started" -> Op("start", i.job.id, i.job.name, 0)
      [] i.fn = "post_progress" -> Op("update_progress", None, None, i.percent)
      [] i.fn = "post_stage_changed" -> Op("update_stage", i.stage, None, i.percent)
      [] i.fn = "post_completed" -> Op("complete", None, None, 0)
      [] i.fn = "post_failed" -> Op("fail", i.msg, None, 0)

JobStatus(id, name, stage, percent, t, msg) ==
    [job_id |-> id, file_name |-> name, stage |-> stage, percent |-> percent,
     timestamp |-> t, error_message |-> msg]

\* the second statement of each post_*: JobStatus.create_*
CreateEvent(i, t) ==
    CASE i.fn = "post_started" ->
            JobStatus(i.job.id, i.job.name, "Starting", 0, t, None)
      [] i.fn = "post_progress" ->
            JobStatus(i.job.id, i.job.name, i.stage, i.percent, t, None)
      [] i.fn = "post_stage_changed" ->
            JobStatus(i.job.id, i.job.name, i.stage, i.percent, t, None)
      [] i.fn = "post_completed" ->
            JobStatus(i.job.id, i.job.name, "Completed", 100, t, None)
      [] i.fn = "post_failed" ->
            JobStatus(i.job.id, i.job.name, "Failed", i.percent, t, i.msg)

J1 == [id |-> "J1", name |-> "a.mp4"]

\* the calls a user of the client makes
FreeCalls ==
    {Invocation("post_started", j, None, 0, None) : j \in Jobs}
    \cup {Invocation("post_stage_changed", J1, st, p, None) :
             st \in {"Processing", "Scene Detection"}, p \in Percents}
    \cup {Invocation("post_progress", J1, "Processing", p, None) : p \in Percents}
    \cup {Invocation("post_completed", J1, None, 0, None)}
    \cup {Invocation("post_failed", J1, None, p, m) : p \in {0, 50}, m \in Messages}
    \cup {Invocation("emit_event", J1, st, p, None) :
             st \in {"Starting", "Completed", "Processing", "Scene Detection"},
             p \in Percents}
    \cup {Invocation("emit_event", J1, "Failed", p, m) :
             p \in Percents, m \in {None, "", "disk full"}}

\* the client was constructed (and with it the JobStateManager)
EventInit ==
    /\ QInit
    /\ SIdle
    /\ GIdle
    /\ EIdle
    /\ PIdle
    /\ TIdle
    /\ MIdle
    /\ instance = TRUE
    /\ initialized = TRUE
    /\ js = IdleState(0)
    /\ clk = 0
    /\ lastOp = Op("none", None, None, 0)
    /\ prev = IdleState(0)
    /\ api_base_url \in UrlChoices
    /\ max_retries \in EventRetries
    /\ retry_delay = DefaultRetryDelay
    /\ enabled = IsApiUrlValid(api_base_url)
    /\ cpc = "ready"
    /\ attempt = 0
    /\ trace = <<>>
    /\ slept = 0
    /\ result = "none"

\* a post_* or emit_event is entered with the call c
Enter(c) ==
    /\ call' = c
    /\ inv' = IF c.fn = "emit_event" THEN Classify(c, js) ELSE c
    /\ event' = <<>>
    /\ ret' = "none"
    /\ applied' = FALSE
    /\ epc' = 1
    /\ cpc' = "ready"
    /\ attempt' = 0
    /\ trace' = <<>>
    /\ slept' = 0
    /\ result' = "none"

\* a user of the client calls it
Call(c) ==
    /\ epc \in {0, Over}
    /\ ppc = "idle"
    /\ clk < MaxOps
    /\ Enter(c)
    /\ UNCHANGED <<tvars, mvars, qvars, svars, jvars, gvars, pvars, api_base_url, max_retries,
                   retry_delay, enabled>>

\* self.state_manager.<method>(...)
StepMutate ==
    /\ epc \in 1..Len(PostSteps)
    /\ PostSteps[epc] = "mutate"
    /\ StateLockFree
    /\ prev' = js
    /\ js' = ApplyPost(inv, js, clk)
    /\ lastOp' = StoreOp(inv)
    /\ clk' = clk + 1
    /\ applied' = TRUE
    /\ held' = [held EXCEPT !["worker"] = HeldAfterMutator(lock_obj)]
    /\ epc' = epc + 1
    /\ UNCHANGED <<mvars, qvars, svars, cvars, gvars, pvars, instance, initialized,
                   call, inv, event, ret,
                   tpc, cls_lock, flagset, lock_obj, pend, goal, rd, copy, commits,
                   inits, upd>>

\* status = JobStatus.create_*(...)
StepCreate ==
    /\ epc \in 1..Len(PostSteps)
    /\ PostSteps[epc] = "create"
    /\ event' = <<CreateEvent(inv, clk)>>
    /\ epc' = epc + 1
    /\ UNCHANGED <<tvars, mvars, qvars, svars, cvars, jvars, gvars, pvars, call, inv, ret, applied>>

\* self.post_status(status) is called
StepPost ==
    /\ epc \in 1..Len(PostSteps)
    /\ PostSteps[epc] = "post"
    /\ cpc = "ready"
    /\ cpc' = "idle"
    /\ UNCHANGED <<tvars, mvars, qvars, svars, jvars, gvars, evars, pvars, api_base_url,
                   max_retries, retry_delay, enabled, attempt, trace, slept, result>>

\* a post_status that returns while the request is still being sent
TransmissionOverAtOnce(c) == c \in {"idle", "attempt", "sleep", "done", "raised"}
\* post_status is left by one of its return statements or by an exception
TransmissionOver(c) == c \in {"done", "raised"}

\* return <what post_status returned>, or its exception goes up
PostReturns ==
    /\ epc \in 1..Len(PostSteps)
    /\ PostSteps[epc] = "post"
    /\ TransmissionOver(cpc)
    /\ ret' = IF cpc = "raised" THEN "raised" ELSE result
    /\ epc' = IF cpc = "raised" THEN Over ELSE epc + 1
    /\ UNCHANGED <<tvars, mvars, qvars, svars, cvars, jvars, gvars, pvars, call, inv, event, applied>>

(* ========================== run_for_file ============================= *)

\* a call of a collaborator: the locals it binds, and whether it is
\* inside the try
CollabStep(name, binds, intry) ==
    [kind |-> "collab", name |-> name, binds |-> binds, try |-> intry,
     stage |-> None, percent |-> 0, assigns |-> FALSE]

\* a post_* of the status client: its stage and percent, and whether
\* current_percent is assigned the percent before it
PostStep(fn, stage, percent, assigns, intry) ==
    [kind |-> "post", name |-> fn, binds |-> {}, try |-> intry,
     stage |-> stage, percent |-> percent, assigns |-> assigns]

\* the body of run_for_file up to the except clause
Pipeline ==
    << CollabStep("mkdir", {}, FALSE),
       PostStep("post_started", None, 0, FALSE, FALSE),
       CollabStep("get_duration", {"original_duration"}, TRUE),
       PostStep("post_stage_changed", "Silence Removal", 10, TRUE, TRUE),
       CollabStep("remove_silence", {}, TRUE),
       PostStep("post_progress", "Silence Removal", 40, TRUE, TRUE),
       CollabStep("get_duration_clean", {"clean_duration", "time_removed"}, TRUE),
       PostStep("post_stage_changed", "Scene Detection", 50, TRUE, TRUE),
       CollabStep("run_scene_detect", {}, TRUE),
       CollabStep("parse_scenes_csv", {}, TRUE),
       PostStep("post_progress", "Scene Detection", 70, TRUE, TRUE),
       PostStep("post_stage_changed", "Highlight Extraction", 75, TRUE, TRUE),
       CollabStep("extract_highlights", {}, TRUE),
       PostStep("post_progress", "Highlight Extraction", 90, TRUE, TRUE),
       PostStep("post_stage_changed", "Archiving", 95, TRUE, TRUE),
       CollabStep("archive", {}, TRUE),
       PostStep("post_completed", None, 0, FALSE, TRUE) >>

\* the locals the summary of the finally clause formats
SummaryLocals == {"original_duration", "clean_duration", "time_removed"}

\* where the run goes after step i went through
Onward(i) == IF i = Len(Pipeline) THEN "finally" ELSE "run"
NextStep(i) == IF i = Len(Pipeline) THEN i ELSE i + 1

\* job_id = str(uuid.uuid4()), file_name = input_path.name: those of run n
RunJob(n) == IF n = 1 THEN J1 ELSE [id |-> "J" \o ToString(n), name |-> "b.mp4"]

\* run_for_file is entered: JobStatusClient(api_base_url=API_BASE_URL)
RunForFile ==
    /\ ppc = "idle"
    /\ epc = 0
    /\ clk = 0
    /\ ppc' = "run"
    /\ pstep' = 1
    /\ current_percent' = 0
    /\ max_retries' = DefaultMaxRetries
    /\ retry_delay' = DefaultRetryDelay
    /\ enabled' = IsApiUrlValid(api_base_url)
    /\ instance' = TRUE
    /\ initialized' = TRUE
    /\ js' = Constructed(js, initialized, clk)
    /\ runs' = 1
    /\ UNCHANGED <<tvars, mvars, qvars, svars, gvars, evars, api_base_url, cpc, attempt, trace,
                   slept, result, clk, lastOp, prev, bound, exc, lost>>

\* a collaborator is called and returns, or raises
PipeCollab(o) ==
    /\ ppc = "run"
    /\ Pipeline[pstep].kind = "collab"
    /\ IF o = "ok"
       THEN /\ bound' = bound \cup Pipeline[pstep].binds
            /\ ppc' = Onward(pstep)
            /\ pstep' = NextStep(pstep)
            /\ UNCHANGED exc
       ELSE /\ exc' = Pipeline[pstep].name
            /\ ppc' = IF Pipeline[pstep].try THEN "except" ELSE "raised"
            /\ UNCHANGED <<bound, pstep>>
    /\ UNCHANGED <<tvars, mvars, qvars, svars, cvars, jvars, gvars, evars, current_percent, lost, runs>>

\* current_percent = <n>; status_client.post_*(...)
PipePost ==
    /\ ppc = "run"
    /\ Pipeline[pstep].kind = "post"
    /\ Enter(Invocation(Pipeline[pstep].name, RunJob(runs), Pipeline[pstep].stage,
                        Pipeline[pstep].percent, None))
    /\ current_percent' =
          IF Pipeline[pstep].assigns THEN Pipeline[pstep].percent ELSE current_percent
    /\ ppc' = "call"
    /\ UNCHANGED <<tvars, mvars, qvars, svars, jvars, gvars, api_base_url, max_retries,
                   retry_delay, enabled, pstep, bound, exc, lost, runs>>

\* the post_* is over: its value is dropped and the next statement runs; an
\* exception out of it would go to the except clause
PipeCallReturns ==
    /\ ppc = "call"
    /\ epc = Over
    /\ IF ret = "raised"
       THEN /\ exc' = "post_status"
            /\ ppc' = IF Pipeline[pstep].try THEN "except" ELSE "raised"
            /\ UNCHANGED <<pstep, lost>>
       ELSE /\ ppc' = Onward(pstep)
            /\ pstep' = NextStep(pstep)
            /\ lost' = (lost \/ ret = "False")
            /\ UNCHANGED exc
    /\ UNCHANGED <<tvars, mvars, qvars, svars, cvars, jvars, gvars, evars, current_percent, bound, runs>>

\* except Exception as e: status_client.post_failed(..., str(e), current_percent)
PipeExcept ==
    /\ ppc = "except"
    /\ Enter(Invocation("post_failed", RunJob(runs), None, current_percent, exc))
    /\ ppc' = "failcall"
    /\ UNCHANGED <<tvars, mvars, qvars, svars, jvars, gvars, api_base_url, max_retries,
                   retry_delay, enabled, pstep, current_percent, bound, exc, lost, runs>>

\* post_failed is over; raise
PipeFailReturns ==
    /\ ppc = "failcall"
    /\ epc = Over
    /\ ppc' = "finally"
    /\ lost' = (lost \/ ret = "False")
    /\ exc' = IF ret = "raised" THEN "post_status" ELSE exc
    /\ UNCHANGED <<tvars, mvars, qvars, svars, cvars, jvars, gvars, evars, pstep, current_percent,
                   bound, runs>>

\* finally: the summary is logged; a local that was never bound makes it
\* raise UnboundLocalError in place of what was in flight
PipeFinally ==
    /\ ppc = "finally"
    /\ IF SummaryLocals \subseteq bound
       THEN /\ ppc' = IF exc = "none" THEN "returned" ELSE "raised"
            /\ UNCHANGED exc
       ELSE /\ ppc' = "raised"
            /\ exc' = "UnboundLocalError"
    /\ UNCHANGED <<tvars, mvars, qvars, svars, cvars, jvars, gvars, evars, pstep, current_percent,
                   bound, lost, runs>>

(* ------------- the worker's runs and the status server --------------- *)

\* API_BASE_URL: unset (the default "") or set
PipeUrls == {"", "http://localhost:5000"}

\* urlopen in the runs: accepted, or failed with an URLError
PipeOutcomes ==
    {o \in Outcomes : \/ o.kind = "response" /\ o.status = 200
                      \/ o.kind = "URLError"}

\* the process has started: no store, no client, no run, no request yet
PipeInit ==
    /\ QInit
    /\ SIdle
    /\ JIdle
    /\ GIdle
    /\ EIdle
    /\ PIdle
    /\ TIdle
    /\ MIdle
    /\ api_base_url \in PipeUrls
    /\ max_retries = DefaultMaxRetries
    /\ retry_delay = DefaultRetryDelay
    /\ enabled = IsApiUrlValid(api_base_url)
    /\ cpc = "ready"
    /\ attempt = 0
    /\ trace = <<>>
    /\ slept = 0
    /\ result = "none"

\* worker_loop took the next path: run_for_file is entered again
RunNextFile ==
    /\ ppc \in {"returned", "raised"}
    /\ runs < MaxRuns
    /\ ppc' = "run"
    /\ pstep' = 1
    /\ current_percent' = 0
    /\ bound' = {}
    /\ exc' = "none"
    /\ lost' = FALSE
    /\ runs' = runs + 1
    /\ max_retries' = DefaultMaxRetries
    /\ retry_delay' = DefaultRetryDelay
    /\ enabled' = IsApiUrlValid(api_base_url)
    /\ instance' = TRUE
    /\ initialized' = TRUE
    /\ js' = Constructed(js, initialized, clk)
    /\ UNCHANGED <<tvars, mvars, qvars, svars, gvars, evars, api_base_url, cpc, attempt, trace,
                   slept, result, clk, lastOp, prev>>

PipeNext ==
    \/ RunForFile
    \/ RunNextFile
    \/ \E o \in {"ok", "raise"} : PipeCollab(o)
    \/ PipePost
    \/ PipeCallReturns
    \/ PipeExcept
    \/ PipeFailReturns
    \/ PipeFinally
    \/ StepMutate
    \/ StepCreate
    \/ StepPost
    \/ PostStatus
    \/ \E o \in PipeOutcomes : Attempt(o)
    \/ RetrySleep
    \/ PostReturns
    \/ Request("/status")
    \/ DoGetStatus
    \/ HandleStatus
    \/ SendStatus

PipeSpec == PipeInit /\ [][PipeNext]_vars

EventNext ==
    \/ \E c \in FreeCalls : Call(c)
    \/ StepMutate
    \/ StepCreate
    \/ StepPost
    \/ PostStatus
    \/ \E o \in EventOutcomes : Attempt(o)
    \/ RetrySleep
    \/ PostReturns
    \/ RunForFile
    \/ \E o \in {"ok", "raise"} : PipeCollab(o)
    \/ PipePost
    \/ PipeCallReturns
    \/ PipeExcept
    \/ PipeFailReturns
    \/ PipeFinally

EventSpec == EventInit /\ [][EventNext]_vars

(* ================= claims on post_* and emit_event =================== *)

\* C11: post_status and every post_* and emit_event end with True or False
\* and never with an exception, whatever urlopen does at each attempt; and
\* run_for_file goes from each post_* to the statement after it whatever the
\* post_* returned: a run ends with an exception only when a collaborator
\* raised, and a run that returns has completed the job.
C11_NeverRaisesNeverBlocks ==
    /\ [](/\ cpc # "raised"
          /\ ret \in {"none", "True", "False"}
          /\ cpc = "done" => result \in {"True", "False"}
          /\ epc = Over => ret \in {"True", "False"}
          /\ ppc = "raised" => Pipeline[pstep].kind = "collab"
          /\ ppc = "returned" => (pstep = Len(Pipeline) /\ js.stage = "Completed"))
    /\ [][(ppc = "call" /\ ppc' # "call")
             => (ppc' = Onward(pstep) /\ pstep' = NextStep(pstep))]_vars

\* a run that returned although transmissions failed, the last one after
\* three failed attempts
C11_Witness ==
    /\ ppc = "returned"
    /\ lost
    /\ enabled
    /\ ret = "False"
    /\ Len(trace) = 5
    /\ trace[1].kind = "URLError"
    /\ trace[5].kind = "Exception"
    /\ js.stage = "Completed"
    /\ js.percent = 100

\* the store as the call's store method leaves the store it found
Mutated == js = ApplyPost(inv, prev, js.last_updated_at)

\* C12: a client whose base URL is absent, empty or blank is disabled at
\* every moment; no call of it makes a network attempt, and every call that
\* is over has applied its store method and returned False.
C12_DisabledClient ==
    api_base_url \in {"None", "", "   "} =>
        /\ ~enabled
        /\ trace = <<>>
        /\ cpc \notin {"attempt", "sleep"}
        /\ epc = Over => (applied /\ Mutated /\ ret = "False")

\* the second call of a client with a blank URL, an emit_event
C12_Witness ==
    /\ api_base_url = "   "
    /\ epc = Over
    /\ call.fn = "emit_event"
    /\ inv.fn = "post_stage_changed"
    /\ clk = 2
    /\ js.stage = "Scene Detection"
    /\ js.percent = 50
    /\ ret = "False"

\* C13: in every post_* the store method has run before post_status is
\* entered and before any network attempt, and from then to the end of the
\* call the store is what that method made of it, whatever the attempts give.
C13_StoreBeforeNetwork ==
    /\ (epc >= 1 /\ (trace # <<>> \/ cpc # "ready")) => applied
    /\ (epc >= 1 /\ applied) => Mutated
    /\ epc = Over => applied

\* post_completed of an enabled client whose two attempts both failed
C13_Witness ==
    /\ epc = Over
    /\ enabled
    /\ inv.fn = "post_completed"
    /\ Len(trace) = 3
    /\ trace[1].kind = "URLError"
    /\ trace[3].kind = "Exception"
    /\ ret = "False"
    /\ prev.stage = "Processing"
    /\ js.stage = "Completed"
    /\ js.percent = 100

ReservedStages == {"Starting", "Completed", "Failed"}

\* the store the call found
Before == IF applied THEN prev ELSE js

\* C14: emit_event with stage "Starting" is post_started, with "Completed"
\* post_completed, with "Failed" post_failed; with another stage it is
\* post_stage_changed, setting the store's stage and percent, when the store's
\* stage differs from it, and post_progress, setting the percent alone, when
\* it is the same; the event built carries the requested stage.
C14_Classification ==
    (epc >= 1 /\ call.fn = "emit_event") =>
        /\ call.stage = "Starting" => inv.fn = "post_started"
        /\ call.stage = "Completed" => inv.fn = "post_completed"
        /\ call.stage = "Failed" => inv.fn = "post_failed"
        /\ (call.stage \notin ReservedStages /\ Before.stage # call.stage) =>
              /\ inv.fn = "post_stage_changed"
              /\ applied =>
                    js = [Before EXCEPT !.stage = call.stage,
                                        !.percent = call.percent,
                                        !.last_updated_at = js.last_updated_at]
        /\ (call.stage \notin ReservedStages /\ Before.stage = call.stage) =>
              /\ inv.fn = "post_progress"
              /\ applied =>
                    js = [Before EXCEPT !.percent = call.percent,
                                        !.last_updated_at = js.last_updated_at]
        /\ event # <<>> => event[1].stage = call.stage

\* emit_event("Processing", 20) on the idle store, then ("Processing", 50)
C14_Witness ==
    /\ epc = Over
    /\ call = Invocation("emit_event", J1, "Processing", 50, None)
    /\ inv.fn = "post_progress"
    /\ clk = 2
    /\ prev = [IdleState(0) EXCEPT !.stage = "Processing", !.percent = 20]
    /\ js.stage = "Processing"
    /\ js.percent = 50

\* C15 as stated: a message that is passed, whatever it is, is the one
\* recorded in the store and in the event, and "Unknown error" is recorded
\* when none is passed.
C15_FailedMessageAsProvided ==
    (epc = Over /\ call.fn = "emit_event" /\ call.stage = "Failed") =>
        /\ js.error_message = IF call.msg = None THEN "Unknown error" ELSE call.msg
        /\ event[1].error_message = js.error_message
        /\ event[1].percent = call.percent

\* C15, amended: a non-empty message that is passed is the one recorded in the
\* store and in the event; "Unknown error" is recorded in both when none or
\* the empty one is passed; the event carries the percent passed.
C15_FailedMessageOrDefault ==
    (epc = Over /\ call.fn = "emit_event" /\ call.stage = "Failed") =>
        /\ js.error_message =
              IF call.msg \in {None, ""} THEN "Unknown error" ELSE call.msg
        /\ event[1].error_message = js.error_message
        /\ event[1].stage = "Failed"
        /\ event[1].percent = call.percent

\* no message passed, percent 50 passed while the store holds 20
C15_Witness ==
    /\ epc = Over
    /\ call = Invocation("emit_event", J1, "Failed", 50, None)
    /\ js.error_message = "Unknown error"
    /\ event[1].error_message = "Unknown error"
    /\ event[1].percent = 50
    /\ js.percent = 20
    /\ js.stage = "Failed"

(* ============ claims on the runs and the status server =============== *)

\* C22: while jobs are driven by run_for_file, the store of a failed job
\* stays as fail left it (stage "Failed", the job's id, its message) until the
\* next start, which makes it the new job's: its id, "Starting", 0, no message;
\* no other step changes it; and every GET /status takes the store as its
\* snapshot and reports a "Failed" or "Starting" snapshot with its fields.
C22_FailedUntilNextStart ==
    /\ [](/\ lastOp.name = "fail" =>
                /\ js.stage = "Failed"
                /\ ~js.is_running
                /\ js.job_id = prev.job_id
                /\ js.error_message = lastOp.s1
                /\ js.error_message # None
          /\ (Served /\ snap[1].stage \in {"Failed", "Starting"}) =>
                /\ resp[1].code = 200
                /\ resp[1].body[1].stage = snap[1].stage
                /\ resp[1].body[1].jobId = snap[1].job_id
                /\ resp[1].body[1].percent = snap[1].percent
                /\ resp[1].body[1].errorMessage = snap[1].error_message)
    /\ [][/\ (js.stage = "Failed" /\ js' # js) =>
                /\ lastOp'.name = "start"
                /\ js'.job_id = RunJob(runs).id
                /\ js'.job_id # js.job_id
                /\ js'.stage = "Starting"
                /\ js'.percent = 0
                /\ js'.error_message = None
          /\ (gpc = "handle_status" /\ gpc' # gpc) => snap' = <<js>>]_vars

\* the second job has started after the first one failed, and is shown
C22_Witness ==
    /\ Served
    /\ runs = 2
    /\ prev.stage = "Failed"
    /\ prev.job_id = "J1"
    /\ prev.error_message = "remove_silence"
    /\ snap[1] = js
    /\ resp[1].body[1].jobId = "J2"
    /\ resp[1].body[1].stage = "Starting"
    /\ resp[1].body[1].errorMessage = None

Transmitting == cpc \in {"idle", "attempt", "sleep"}

\* C23: while post_status is at work on an event, that event is the one of
\* the last mutation applied to the store; no mutation is applied and no
\* other post_* is entered before post_status has returned, within a run and
\* from one run to the next.
C23_TransmissionsInOrder ==
    /\ [](Transmitting =>
             /\ applied
             /\ lastOp = StoreOp(inv)
             /\ event = <<CreateEvent(inv, js.last_updated_at + 1)>>
             /\ Mutated)
    /\ [][(js' # js \/ call' # call \/ epc' < epc \/ runs' # runs)
             => ~Transmitting]_vars

\* the second run, between two attempts at sending its second event
C23_Witness ==
    /\ runs = 2
    /\ ppc = "call"
    /\ cpc = "sleep"
    /\ Len(trace) = 3
    /\ inv.fn = "post_stage_changed"
    /\ js.job_id = "J2"
    /\ js.stage = "Silence Removal"

\* C24: a run that a collaborator inside the try made fail ends with the
\* store at stage "Failed" holding the error's text and is_running false,
\* with a Failed event carrying the last checkpoint percent, and with that
\* error raised to worker_loop.
C24_FailureRecordedAndRaised ==
    (ppc = "raised" /\ Pipeline[pstep].kind = "collab" /\ Pipeline[pstep].try) =>
        /\ js.stage = "Failed"
        /\ js.error_message = Pipeline[pstep].name
        /\ ~js.is_running
        /\ event # <<>>
        /\ event[1].stage = "Failed"
        /\ event[1].percent = current_percent
        /\ exc = Pipeline[pstep].name

\* the (stage, percent) pairs of a run without failure
StageSequence ==
    << <<"Starting", 0>>, <<"Silence Removal", 10>>, <<"Silence Removal", 40>>,
       <<"Scene Detection", 50>>, <<"Scene Detection", 70>>,
       <<"Highlight Extraction", 75>>, <<"Highlight Extraction", 90>>,
       <<"Archiving", 95>>, <<"Completed", 100>> >>

\* the number of post_* among the first i steps of the run
PostsUpTo(i) == Cardinality({j \in 1..i : Pipeline[j].kind = "post"})

\* the number of mutations the run has applied
Posted ==
    IF ppc = "call" /\ ~applied THEN PostsUpTo(pstep) - 1
    ELSE IF ppc = "call" THEN PostsUpTo(pstep)
    ELSE IF ppc = "run" THEN PostsUpTo(pstep - 1)
    ELSE PostsUpTo(pstep)

\* C29: at every point of a run in which no collaborator has failed, the
\* store holds the pair of StageSequence numbered by the post_* calls made so
\* far, the event built for a step carries that pair, and a run that returns
\* has gone through all nine and left is_running false.
C29_StageSequence ==
    /\ Len(StageSequence) = PostsUpTo(Len(Pipeline))
    /\ (ppc \in {"run", "call"} /\ Posted >= 1) =>
          /\ <<js.stage, js.percent>> = StageSequence[Posted]
          /\ js.job_id = RunJob(runs).id
          /\ js.is_running = (Posted < Len(StageSequence))
    /\ (ppc = "call" /\ event # <<>>) =>
          <<event[1].stage, event[1].percent>> = StageSequence[PostsUpTo(pstep)]
    /\ ppc = "returned" =>
          /\ <<js.stage, js.percent>> = StageSequence[Len(StageSequence)]
          /\ ~js.is_running

\* a second run that returned, some of its events lost
C29_Witness ==
    /\ ppc = "returned"
    /\ runs = 2
    /\ lost
    /\ js.job_id = "J2"
    /\ js.stage = "Completed"
    /\ js.percent = 100
    /\ prev.stage = "Archiving"
    /\ prev.percent = 95

InProcess(w) == wpc[w] \in {"dequeued", "running", "except", "finally", "discard"}

Holders(p) == {w \in Workers : InProcess(w) /\ wpath[w] = p}

\* C1: a path is on the queue or with the worker at most once, an admission
\* of a path that is queued or being processed changes nothing (it finds the
\* path exactly once on the queue or with the worker), and every queue entry
\* is run exactly once: puts = invocations + entries still waiting.
C1_DuplicateAdmissionIsNoOp ==
    \A p \in Candidates :
        /\ Occurrences(p, job_queue) + Cardinality(Holders(p)) <= 1
        /\ (hpc = "skip" /\ hpath = p)
              => Occurrences(p, job_queue) + Cardinality(Holders(p)) = 1
        /\ Occurrences(p, putLog)
              = Occurrences(p, runLog) + Occurrences(p, job_queue)
                  + Cardinality({w \in Workers : wpc[w] = "dequeued" /\ wpath[w] = p})

C1_Witness ==
    /\ hpc = "skip"
    /\ \E w \in Workers : wpc[w] = "running" /\ wpath[w] = hpath
    /\ Occurrences(hpath, runLog) = 1

\* C2: when the worker is through its finally block (whether the run returned
\* or raised), the de-dup set holds no path that is not on the queue, being
\* put there by on_created, or with another worker: the finished path is out
\* of the set before the next get, so it can be admitted again.
C2_DiscardedBeforeNextGet ==
    \A w \in Workers :
        wpc[w] \in {"task_done", "get"} =>
            \A p \in queued_files :
                \/ p \in Range(job_queue)
                \/ hpc = "put" /\ hpath = p
                \/ \E v \in Workers \ {w} : InProcess(v) /\ wpath[v] = p

C2_Witness ==
    \E w \in Workers :
        /\ wpc[w] = "get"
        /\ wout[w] = "raised"
        /\ wpath[w] \in Range(job_queue)
        /\ Occurrences(wpath[w], putLog) = 2

\* C3: at most one run_for_file is in progress.
C3_OneRunAtATime == Cardinality({w \in Workers : wpc[w] = "running"}) <= 1

C3_Witness ==
    /\ \E w \in Workers : wpc[w] = "running"
    /\ Len(job_queue) = 1
    /\ hpc = "wait"

\* C4: run_for_file is invoked on the paths in the order of their puts: the
\* sequence of invocations is a prefix of the sequence of puts.
C4_Fifo ==
    /\ Len(runLog) <= Len(putLog)
    /\ \A i \in 1..Len(runLog) : runLog[i] = putLog[i]

C4_Witness ==
    /\ Len(runLog) = 2
    /\ runLog[1] # runLog[2]
    /\ Len(putLog) = 3

\* C5: the worker thread never dies, and every path on the queue is
\* eventually handed to run_for_file (each run ending, by FairSpec).
C5_WorkerSurvivesFailures ==
    /\ [](\A w \in Workers : wpc[w] # "dead")
    /\ \A p \in Candidates :
          (p \in Range(job_queue))
              ~> (\E w \in Workers : wpc[w] = "running" /\ wpath[w] = p)

C5_Witness ==
    \E w \in Workers :
        /\ wpc[w] = "running"
        /\ wout[w] = "none"
        /\ Len(runLog) = 2
        /\ \E v \in Workers : wpath[v] # runLog[1]

\* C7: the wait for one file does not hold up another: when the event of a
\* candidate whose size is quiet is next in the observer's event queue,
\* on_created is free to take it, or is busy only with a file that is quiet
\* too (so that its wait ends).
C7_WaitsAreIndependent ==
    (mpc = "loop" /\ events # <<>> /\ ~Ignored(Head(events))
        /\ stable[Head(events).src_path])
        => (hpc # "wait" \/ stable[hpath])


(* --------- JobStateManager, statement by statement, two threads ------ *)

\* the position of thread t: the worker's tpc, the request handler's gpc
Pc(t) == IF t = "handler" THEN gpc ELSE tpc

Goto(t, l) ==
    IF t = "handler" THEN gpc' = l /\ UNCHANGED tpc
                     ELSE tpc' = l /\ UNCHANGED gpc

\* where JobStateManager() returns to: handle_status goes on to get_state,
\* the worker's client to its first call
AfterInit(t) == IF t = "handler" THEN "get_state" ELSE "ready"

\* the fields of the JobState dataclass, in the order get_state reads them
FieldOrder ==
    <<"job_id", "file_name", "stage", "percent", "started_at",
      "last_updated_at", "error_message", "is_running">>

\* the fields a mutator assigns, in the order of its assignments
Assigned(name) ==
    CASE name = "start" -> FieldOrder
      [] name = "stage" -> <<"stage", "percent", "last_updated_at">>
      [] name = "progress" -> <<"percent", "last_updated_at">>
      [] name = "complete" -> <<"stage", "percent", "last_updated_at", "is_running">>
      [] name = "fail" -> <<"stage", "error_message", "last_updated_at", "is_running">>
      [] OTHER -> FieldOrder

\* the record a mutator called as op on record s at time t is assigning
Target(op, s, t) ==
    CASE op.name = "start" -> StartJob(s, op.s1, op.s2, t)
      [] op.name = "stage" -> UpdateStage(s, op.s1, op.n, t)
      [] op.name = "progress" -> UpdateProgress(s, op.n, t)
      [] op.name = "complete" -> CompleteJob(s, t)
      [] op.name = "fail" -> FailJob(s, op.s1, t)
      [] OTHER -> ResetToIdle(s, t)

\* the calls the worker's thread makes on the store
ThreadCalls ==
    {Op("start", j.id, j.name, 0) : j \in Jobs}
        \cup {Op("stage", "Scene Detection", None, 50), Op("complete", None, None, 0),
              Op("fail", "tool crashed", None, 0)}

\* a get_state without the with statement
GetStateUnlocked == FALSE
\* get_state reads inside "with self._state_lock"
GetStateLocks == TRUE

\* mutators without the with statement
MutatorsUnlocked == FALSE
\* every mutator's body is inside "with self._state_lock"
MutatorLocks == TRUE

\* no thread holds lock object l
LockFree(l) == (\A t \in Threads : held[t] # l) /\ upd.held # l

\* handle_status: state_manager = JobStateManager() is called
HandlerConstruct ==
    /\ gpc = "handle_status"
    /\ gpc' = "new"
    /\ UNCHANGED <<tvars, mvars, qvars, svars, cvars, evars, pvars, jvars, gpath, snap, resp>>

\* __new__: if cls._instance is None
NewCheck(t) ==
    /\ Pc(t) = "new"
    /\ Goto(t, IF instance THEN "init" ELSE "new_lock")
    /\ UNCHANGED <<upd, mvars, qvars, svars, cvars, evars, pvars, jvars, gpath, snap, resp,
                   cls_lock, flagset, lock_obj, held, pend, goal, rd, copy,
                   commits, inits>>

\* __new__: with cls._lock
NewLock(t) ==
    /\ Pc(t) = "new_lock"
    /\ cls_lock = "free"
    /\ cls_lock' = t
    /\ Goto(t, "new_check2")
    /\ UNCHANGED <<upd, mvars, qvars, svars, cvars, evars, pvars, jvars, gpath, snap, resp,
                   flagset, lock_obj, held, pend, goal, rd, copy, commits, inits>>

\* __new__: if cls._instance is None, under the class lock
NewCheck2(t) ==
    /\ Pc(t) = "new_check2"
    /\ IF instance THEN cls_lock' = "free" /\ Goto(t, "init")
                   ELSE cls_lock' = cls_lock /\ Goto(t, "new_create")
    /\ UNCHANGED <<upd, mvars, qvars, svars, cvars, evars, pvars, jvars, gpath, snap, resp,
                   flagset, lock_obj, held, pend, goal, rd, copy, commits, inits>>

\* __new__: cls._instance = super().__new__(cls)
NewCreate(t) ==
    /\ Pc(t) = "new_create"
    /\ instance' = TRUE
    /\ Goto(t, "new_flag")
    /\ UNCHANGED <<upd, mvars, qvars, svars, cvars, evars, pvars, gpath, snap, resp,
                   initialized, js, clk, lastOp, prev,
                   cls_lock, flagset, lock_obj, held, pend, goal, rd, copy,
                   commits, inits>>

\* __new__: cls._instance._initialized = False; the class lock is released
NewFlag(t) ==
    /\ Pc(t) = "new_flag"
    /\ flagset' = TRUE
    /\ initialized' = FALSE
    /\ cls_lock' = "free"
    /\ Goto(t, "init")
    /\ UNCHANGED <<upd, mvars, qvars, svars, cvars, evars, pvars, gpath, snap, resp,
                   instance, js, clk, lastOp, prev,
                   lock_obj, held, pend, goal, rd, copy, commits, inits>>

\* __init__: if self._initialized: return. The attribute is read under no
\* lock; an instance that does not have it yet raises AttributeError, which
\* handle_status answers with send_error(500) and the worker's caller gets
InitCheck(t) ==
    /\ Pc(t) = "init"
    /\ IF ~flagset
       THEN IF t = "handler"
            THEN /\ gpc' = "idle"
                 /\ resp' = <<[code |-> 500, body |-> <<>>]>>
                 /\ UNCHANGED tpc
            ELSE /\ tpc' = "raised"
                 /\ UNCHANGED <<gpc, resp>>
       ELSE /\ Goto(t, IF initialized THEN AfterInit(t) ELSE "init_lock")
            /\ UNCHANGED resp
    /\ UNCHANGED <<upd, mvars, qvars, svars, cvars, evars, pvars, jvars, gpath, snap,
                   cls_lock, flagset, lock_obj, held, pend, goal, rd, copy,
                   commits, inits>>

\* __init__: self._state_lock = threading.Lock(), a new lock object
InitLock(t) ==
    /\ Pc(t) = "init_lock"
    /\ lock_obj' = lock_obj + 1
    /\ Goto(t, "init_state")
    /\ UNCHANGED <<upd, mvars, qvars, svars, cvars, evars, pvars, jvars, gpath, snap, resp,
                   cls_lock, flagset, held, pend, goal, rd, copy, commits, inits>>

\* __init__: self._state = JobState(job_id=None, ..., is_running=False)
InitState(t) ==
    /\ Pc(t) = "init_state"
    /\ js' = IdleState(clk)
    /\ inits' = inits + 1
    /\ commits' = Append(commits, js')
    /\ Goto(t, "init_flag")
    /\ UNCHANGED <<upd, mvars, qvars, svars, cvars, evars, pvars, gpath, snap, resp,
                   instance, initialized, clk, lastOp, prev,
                   cls_lock, flagset, lock_obj, held, pend, goal, rd, copy>>

\* __init__: self._initialized = True
InitFlag(t) ==
    /\ Pc(t) = "init_flag"
    /\ initialized' = TRUE
    /\ Goto(t, AfterInit(t))
    /\ UNCHANGED <<upd, mvars, qvars, svars, cvars, evars, pvars, gpath, snap, resp,
                   instance, js, clk, lastOp, prev,
                   cls_lock, flagset, lock_obj, held, pend, goal, rd, copy,
                   commits, inits>>

\* a mutator is entered: with self._state_lock; now = datetime.now(...)
MutatorEnter(op) ==
    /\ tpc = "ready"
    /\ clk < MaxOps
    /\ MutatorLocks => LockFree(lock_obj)
    /\ held' = [held EXCEPT !["worker"] = IF MutatorLocks THEN lock_obj ELSE 0]
    /\ goal' = Target(op, js, clk)
    /\ pend' = Assigned(op.name)
    /\ lastOp' = op
    /\ prev' = js
    /\ clk' = clk + 1
    /\ tpc' = "mutating"
    /\ UNCHANGED <<upd, mvars, qvars, svars, cvars, evars, pvars, gvars,
                   instance, initialized, js,
                   cls_lock, flagset, lock_obj, rd, copy, commits, inits>>

\* the mutator's next assignment to a field of self._state
MutatorAssign ==
    /\ tpc = "mutating"
    /\ pend # <<>>
    /\ js' = [js EXCEPT ![Head(pend)] = goal[Head(pend)]]
    /\ pend' = Tail(pend)
    /\ UNCHANGED <<upd, mvars, qvars, svars, cvars, evars, pvars, gvars,
                   instance, initialized, clk, lastOp, prev,
                   tpc, cls_lock, flagset, lock_obj, held, goal, rd, copy,
                   commits, inits>>

\* the mutator leaves the with block
MutatorLeave ==
    /\ tpc = "mutating"
    /\ pend = <<>>
    /\ held' = [held EXCEPT !["worker"] = 0]
    /\ commits' = Append(commits, js)
    /\ tpc' = "ready"
    /\ UNCHANGED <<upd, mvars, qvars, svars, cvars, evars, pvars, gvars, jvars,
                   cls_lock, flagset, lock_obj, pend, goal, rd, copy, inits>>

\* get_state: with self._state_lock
GetStateEnter ==
    /\ gpc = "get_state"
    /\ GetStateLocks => LockFree(lock_obj)
    /\ held' = [held EXCEPT !["handler"] = IF GetStateLocks THEN lock_obj ELSE 0]
    /\ rd' = FieldOrder
    /\ copy' = Blank
    /\ gpc' = "reading"
    /\ UNCHANGED <<upd, mvars, qvars, svars, cvars, evars, pvars, jvars, gpath, snap, resp,
                   tpc, cls_lock, flagset, lock_obj, pend, goal, commits, inits>>

\* get_state: the next argument of JobState(...) is read from self._state
GetStateRead ==
    /\ gpc = "reading"
    /\ rd # <<>>
    /\ copy' = [copy EXCEPT ![Head(rd)] = js[Head(rd)]]
    /\ rd' = Tail(rd)
    /\ UNCHANGED <<upd, mvars, qvars, svars, cvars, evars, pvars, jvars, gvars,
                   tpc, cls_lock, flagset, lock_obj, held, pend, goal, commits,
                   inits>>

\* get_state: the new JobState is returned and the with block is left
GetStateReturn ==
    /\ gpc = "reading"
    /\ rd = <<>>
    /\ snap' = <<copy>>
    /\ held' = [held EXCEPT !["handler"] = 0]
    /\ gpc' = "respond"
    /\ UNCHANGED <<upd, mvars, qvars, svars, cvars, evars, pvars, jvars, gpath, resp,
                   tpc, cls_lock, flagset, lock_obj, pend, goal, rd, copy,
                   commits, inits>>

\* the store was constructed at import time; the worker's thread mutates
\* it while the server's thread serves GET /status
LockInit ==
    /\ QInit
    /\ SIdle
    /\ CIdle
    /\ GIdle
    /\ EIdle
    /\ PIdle
    /\ MIdle
    /\ instance = TRUE
    /\ initialized = TRUE
    /\ js = IdleState(0)
    /\ clk = 0
    /\ lastOp = Op("none", None, None, 0)
    /\ prev = IdleState(0)
    /\ tpc = "ready"
    /\ cls_lock = "free"
    /\ flagset = TRUE
    /\ lock_obj = 1
    /\ held = [t \in Threads |-> 0]
    /\ pend = <<>>
    /\ goal = Blank
    /\ rd = <<>>
    /\ copy = Blank
    /\ commits = <<IdleState(0)>>
    /\ inits = 1
    /\ upd = NoUpdater

LockNext ==
    \/ \E op \in ThreadCalls : MutatorEnter(op)
    \/ MutatorAssign
    \/ MutatorLeave
    \/ Request("/status")
    \/ DoGetStatus
    \/ HandlerConstruct
    \/ NewCheck("handler")
    \/ InitCheck("handler")
    \/ GetStateEnter
    \/ GetStateRead
    \/ GetStateReturn
    \/ SendStatus

LockSpec == LockInit /\ [][LockNext]_vars

\* nothing was constructed yet: the worker's thread and the server's thread
\* both make their first JobStateManager()
RaceInit ==
    /\ QInit
    /\ SIdle
    /\ CIdle
    /\ JIdle
    /\ GIdle
    /\ EIdle
    /\ PIdle
    /\ MIdle
    /\ tpc = "new"
    /\ cls_lock = "free"
    /\ flagset = FALSE
    /\ lock_obj = 0
    /\ held = [t \in Threads |-> 0]
    /\ pend = <<>>
    /\ goal = Blank
    /\ rd = <<>>
    /\ copy = Blank
    /\ commits = <<>>
    /\ inits = 0
    /\ upd = NoUpdater

RaceNext ==
    \/ \E t \in Threads : NewCheck(t)
    \/ \E t \in Threads : NewLock(t)
    \/ \E t \in Threads : NewCheck2(t)
    \/ \E t \in Threads : NewCreate(t)
    \/ \E t \in Threads : NewFlag(t)
    \/ \E t \in Threads : InitCheck(t)
    \/ \E t \in Threads : InitLock(t)
    \/ \E t \in Threads : InitState(t)
    \/ \E t \in Threads : InitFlag(t)
    \/ \E op \in ThreadCalls : MutatorEnter(op)
    \/ MutatorAssign
    \/ MutatorLeave
    \/ Request("/status")
    \/ DoGetStatus
    \/ HandlerConstruct
    \/ GetStateEnter
    \/ GetStateRead
    \/ GetStateReturn
    \/ SendStatus

RaceSpec == RaceInit /\ [][RaceNext]_vars

\* C25: under every interleaving with the mutators, the record get_state
\* returns equals a record the store held when no mutator was inside it
\* (never a mixture of two), and once returned it is not changed by the
\* mutations that follow.
C25_SnapshotAtomic ==
    /\ [](snap # <<>> => snap[1] \in Range(commits))
    /\ [][(snap # <<>> /\ tpc' # tpc) => snap' = snap]_vars

C25_Witness ==
    /\ snap # <<>>
    /\ snap[1].job_id = "J2"
    /\ snap[1].error_message = None
    /\ js # snap[1]
    /\ js.stage = "Failed"
    /\ Len(commits) > 2


\* C26: the constructions of the worker's and the server's thread, racing
\* or not, initialise one state record and one state lock exactly once, none
\* of them fails, and a start_job that has returned is still in the store
\* while no other mutator was called.
C26_InitialisedOnce ==
    /\ inits <= 1
    /\ lock_obj <= 1
    /\ tpc # "raised"
    /\ (resp # <<>> => resp[1].code # 500)
    /\ (lastOp.name = "start" /\ tpc = "ready") => js.job_id = lastOp.s1


(* ================= main: start-up and shutdown ======================= *)

\* how status_server.start() ends: the thread serves; HTTPServer(...) raises
\* OSError (the port is in use) before self.server is assigned; or
\* thread.start() raises ("can't start new thread") after it was assigned
StartOutcomes == {"started", "OSError", "RuntimeError"}

\* self.server after start() ended as o: assigned at line 83, never reset
ServerAfter(o) == IF o = "OSError" THEN None ELSE "HTTPServer"

\* status_server = StatusServer(...); try: status_server.start()
\* except OSError / except Exception: log, "Continuing without status server"
MainStartServer(o) ==
    /\ mpc = "start_server"
    /\ srv' = ServerAfter(o)
    /\ sock' = IF ServerAfter(o) = None THEN "none" ELSE "listening"
    /\ sthread' = CASE o = "started" -> "serving"
                    [] o = "RuntimeError" -> "unstarted"
                    [] OTHER -> "none"
    /\ startlog' = CASE o = "started" -> "none"
                     [] o = "OSError" -> "OSError"
                     [] OTHER -> "Exception"
    /\ mpc' = "start_worker"
    /\ UNCHANGED <<conns, cur, tvars, jvars, gvars, evars, pvars, svars, cvars, events, nemit,
                   stable, hpc, hpath, queue_lock, queued_files, job_queue,
                   unfinished_tasks, wpc, wpath, wout, putLog, runLog>>

\* KeyboardInterrupt is raised in the while True: time.sleep(1) loop
Interrupt ==
    /\ mpc = "loop"
    /\ mpc' = "observer_stop"
    /\ UNCHANGED <<tvars, mvars, jvars, gvars, evars, pvars, svars, cvars, events,
                   nemit, stable, hpc, hpath, queue_lock, queued_files, job_queue,
                   unfinished_tasks, wpc, wpath, wout, putLog, runLog>>

\* observer.stop(): no further event is emitted or dispatched; an
\* on_created that is running goes on
ObserverStop ==
    /\ mpc = "observer_stop"
    /\ mpc' = "server_stop"
    /\ UNCHANGED <<tvars, mvars, jvars, gvars, evars, pvars, svars, cvars, events,
                   nemit, stable, hpc, hpath, queue_lock, queued_files, job_queue,
                   unfinished_tasks, wpc, wpath, wout, putLog, runLog>>

\* status_server.stop(): if self.server is not None
ServerStop ==
    /\ mpc = "server_stop"
    /\ mpc' = IF srv = None THEN "observer_join" ELSE "shutdown"
    /\ UNCHANGED <<tvars, mvars, jvars, gvars, evars, pvars, svars, cvars, events,
                   nemit, stable, hpc, hpath, queue_lock, queued_files, job_queue,
                   unfinished_tasks, wpc, wpath, wout, putLog, runLog>>

\* self.server.shutdown(): returns when the serve_forever loop has seen the
\* request and ended; with no serve_forever running it does not return
Shutdown ==
    /\ mpc = "shutdown"
    /\ sthread = "serving"
    /\ sthread' = "exited"
    /\ mpc' = "server_close"
    /\ UNCHANGED <<conns, cur, tvars, jvars, gvars, evars, pvars, svars, cvars, events, nemit,
                   stable, hpc, hpath, queue_lock, queued_files, job_queue,
                   unfinished_tasks, wpc, wpath, wout, putLog, runLog,
                   srv, sock, startlog>>

\* self.server.server_close(); self.server = None
ServerClose ==
    /\ mpc = "server_close"
    /\ sock' = "closed"
    /\ srv' = None
    /\ mpc' = "thread_join"
    /\ UNCHANGED <<conns, cur, tvars, jvars, gvars, evars, pvars, svars, cvars, events, nemit,
                   stable, hpc, hpath, queue_lock, queued_files, job_queue,
                   unfinished_tasks, wpc, wpath, wout, putLog, runLog,
                   sthread, startlog>>

\* if self.thread is not None: self.thread.join(timeout=5); self.thread = None
ThreadJoin ==
    /\ mpc = "thread_join"
    /\ sthread' = "none"
    /\ mpc' = "observer_join"
    /\ UNCHANGED <<conns, cur, tvars, jvars, gvars, evars, pvars, svars, cvars, events, nemit,
                   stable, hpc, hpath, queue_lock, queued_files, job_queue,
                   unfinished_tasks, wpc, wpath, wout, putLog, runLog,
                   srv, sock, startlog>>

\* observer.join() returns when the observer's thread has ended, which it
\* does once the on_created it is running has returned
Joins(h) == h = "idle"

\* observer.join(); log "Observer stopped"; main returns
ObserverJoin ==
    /\ mpc = "observer_join"
    /\ Joins(hpc)
    /\ mpc' = "returned"
    /\ UNCHANGED <<tvars, mvars, jvars, gvars, evars, pvars, svars, cvars, events,
                   nemit, stable, hpc, hpath, queue_lock, queued_files, job_queue,
                   unfinished_tasks, wpc, wpath, wout, putLog, runLog>>

MainInit ==
    /\ mpc = "start_server"
    /\ events = <<>>
    /\ nemit = 0
    /\ stable = [p \in Candidates |-> FALSE]
    /\ hpc = "idle"
    /\ hpath = NoPath
    /\ queue_lock = NoHolder
    /\ queued_files = {}
    /\ job_queue = <<>>
    /\ unfinished_tasks = 0
    /\ wpc = [w \in Workers |-> "unstarted"]
    /\ wpath = [w \in Workers |-> NoPath]
    /\ wout = [w \in Workers |-> "none"]
    /\ putLog = <<>>
    /\ runLog = <<>>
    /\ SIdle
    /\ CIdle
    /\ JIdle
    /\ GIdle
    /\ EIdle
    /\ PIdle
    /\ TIdle
    /\ MIdle

MainSteps ==
    \/ \E o \in StartOutcomes : MainStartServer(o)
    \/ MainStartWorker
    \/ MainStartObserver
    \/ ObserverStop
    \/ ServerStop
    \/ Shutdown
    \/ ServerClose
    \/ ThreadJoin
    \/ ObserverJoin

MainNext ==
    \/ MainSteps
    \/ Interrupt
    \/ \E e \in EventSet : Emit(e)
    \/ \E p \in Candidates : FileQuiet(p)
    \/ HandlerNext
    \/ \E w \in Workers : WorkerNext(w)

MainSpec == MainInit /\ [][MainNext]_vars

\* every thread that can run is run; when the writers of the files pause,
\* and whether an interrupt comes, is the environment's choice
MainFairSpec ==
    /\ MainSpec
    /\ WF_vars(MainSteps)
    /\ WF_vars(HandlerNext)
    /\ \A w \in Workers : WF_vars(WorkerNext(w)) /\ SF_vars(WorkerLock(w))

\* C27: when status_server.start() has failed, main has logged it, the
\* worker and the observer are started all the same and files are admitted
\* and run, and the StatusServer is left with nothing for a later stop() to
\* do: stop() neither shuts anything down nor waits.
C27_FailedStartHarmless ==
    startlog # "none" =>
        /\ mpc \notin {"start_server", "start_worker"} => wpc[1] # "unstarted"
        /\ srv = None
        /\ sthread = "none"
        /\ mpc \notin {"shutdown", "server_close", "thread_join"}

\* C28: after a KeyboardInterrupt (the server having started), main stops
\* the observer and the server and returns, whatever on_created and the
\* worker are doing.
C28_ShutdownReturns ==
    (mpc = "observer_stop" /\ startlog = "none") ~> (mpc = "returned")


(* ================= the store's data model ============================ *)

\* C31: in every state of the store, whatever calls were made, an
\* error_message is present only with the stage "Failed".
C31_ErrorOnlyWhenFailed == js.error_message # None => js.stage = "Failed"

\* a store method was applied by this step
Applied(name) == clk' # clk /\ lastOp'.name = name

\* C32: complete and fail leave job_id, file_name and started_at as they
\* were, fail leaves the percent too, and the only call that takes a present
\* job_id or file_name away is reset_to_idle.
C32_IdentityKept ==
    /\ [][(Applied("complete") \/ Applied("fail")) =>
            /\ js'.job_id = js.job_id
            /\ js'.file_name = js.file_name
            /\ js'.started_at = js.started_at]_vars
    /\ [][Applied("fail") => js'.percent = js.percent]_vars
    /\ [][((js.job_id # None /\ js'.job_id = None)
            \/ (js.file_name # None /\ js'.file_name = None))
          => Applied("reset_to_idle")]_vars

\* a job completed and one failed at percent 50, both keeping their identity
C32_Witness ==
    /\ lastOp.name = "fail"
    /\ prev.percent = 50
    /\ js.percent = 50
    /\ js.job_id = "J2"
    /\ js.file_name = "b.mp4"
    /\ js.started_at # NoTime

\* the fields of the idle state, the time stamp apart
IdleFields(s) ==
    /\ s.job_id = None
    /\ s.file_name = None
    /\ s.started_at = NoTime
    /\ s.error_message = None
    /\ s.stage = "Idle"
    /\ s.percent = 0
    /\ s.is_running = FALSE

\* C34: the constructed store is idle, reset_to_idle makes it idle from any
\* state, and a second reset_to_idle leaves every field but the time stamp.
C34_ResetToIdle ==
    /\ [][(~initialized /\ initialized') => IdleFields(js')]_vars
    /\ [][Applied("reset_to_idle") => IdleFields(js')]_vars
    /\ [][(lastOp.name = "reset_to_idle" /\ Applied("reset_to_idle")) =>
            [js' EXCEPT !.last_updated_at = 0] = [js EXCEPT !.last_updated_at = 0]]_vars

\* a failed job at percent 20 was reset
C34_Witness ==
    /\ lastOp.name = "reset_to_idle"
    /\ prev.stage = "Failed"
    /\ prev.error_message = "disk full"
    /\ prev.job_id = "J1"
    /\ IdleFields(js)


(* ============ two threads calling update_stage / update_progress ===== *)

\* the calls of test_thread_safety and of a run's checkpoints
UpdateCalls ==
    {Op("progress", None, None, p) : p \in Percents}
        \cup {Op("stage", "Scene Detection", None, p) : p \in Percents}

\* the second thread enters a mutator: with self._state_lock
UpdaterEnter(op) ==
    /\ upd.pc = "ready"
    /\ clk < MaxOps
    /\ MutatorLocks => LockFree(lock_obj)
    /\ upd' = [pc |-> "mutating", held |-> IF MutatorLocks THEN lock_obj ELSE 0,
               pend |-> Assigned(op.name),
               goal |-> Target(op, js, clk), prev |-> js, op |-> op]
    /\ clk' = clk + 1
    /\ UNCHANGED <<mvars, qvars, svars, cvars, evars, pvars, gvars,
                   instance, initialized, js, lastOp, prev,
                   tpc, cls_lock, flagset, lock_obj, held, pend, goal, rd, copy,
                   commits, inits>>

\* its next assignment to a field of self._state
UpdaterAssign ==
    /\ upd.pc = "mutating"
    /\ upd.pend # <<>>
    /\ js' = [js EXCEPT ![Head(upd.pend)] = upd.goal[Head(upd.pend)]]
    /\ upd' = [upd EXCEPT !.pend = Tail(upd.pend)]
    /\ UNCHANGED <<mvars, qvars, svars, cvars, evars, pvars, gvars,
                   instance, initialized, clk, lastOp, prev,
                   tpc, cls_lock, flagset, lock_obj, held, pend, goal, rd, copy,
                   commits, inits>>

\* it leaves the with block
UpdaterLeave ==
    /\ upd.pc = "mutating"
    /\ upd.pend = <<>>
    /\ upd' = [upd EXCEPT !.pc = "ready", !.held = 0]
    /\ commits' = Append(commits, js)
    /\ UNCHANGED <<mvars, qvars, svars, cvars, evars, pvars, gvars, jvars,
                   tpc, cls_lock, flagset, lock_obj, held, pend, goal, rd, copy,
                   inits>>

\* start_job("J1", "a.mp4") has returned; two threads go on with updates
UpdateInit ==
    /\ QInit
    /\ SIdle
    /\ CIdle
    /\ GIdle
    /\ EIdle
    /\ PIdle
    /\ MIdle
    /\ instance = TRUE
    /\ initialized = TRUE
    /\ js = StartJob(IdleState(0), "J1", "a.mp4", 0)
    /\ clk = 0
    /\ lastOp = Op("start", "J1", "a.mp4", 0)
    /\ prev = IdleState(0)
    /\ tpc = "ready"
    /\ cls_lock = "free"
    /\ flagset = TRUE
    /\ lock_obj = 1
    /\ held = [t \in Threads |-> 0]
    /\ pend = <<>>
    /\ goal = Blank
    /\ rd = <<>>
    /\ copy = Blank
    /\ commits = <<StartJob(IdleState(0), "J1", "a.mp4", 0)>>
    /\ inits = 1
    /\ upd = NoUpdater

UpdateNext ==
    \/ \E op \in UpdateCalls : MutatorEnter(op)
    \/ MutatorAssign
    \/ MutatorLeave
    \/ \E op \in UpdateCalls : UpdaterEnter(op)
    \/ UpdaterAssign
    \/ UpdaterLeave

UpdateSpec == UpdateInit /\ [][UpdateNext]_vars

\* records a and b agree on every field outside fs
KeptBut(a, b, fs) == \A f \in (DOMAIN a) \ fs : a[f] = b[f]

\* what the call op, entered on record a, has made of it when it returns
CallFrame(op, a, b) ==
    CASE op.name = "progress" ->
            KeptBut(a, b, {"percent", "last_updated_at"}) /\ b.percent = op.n
      [] op.name = "stage" ->
            /\ KeptBut(a, b, {"stage", "percent", "last_updated_at"})
            /\ b.stage = op.s1
            /\ b.percent = op.n
      [] OTHER -> TRUE

\* C33: when an update_progress returns, the store differs from the one it
\* was entered on in percent and last_updated_at only; when an update_stage
\* returns, in stage, percent and last_updated_at only; and while two
\* threads make such calls on a started job, the job stays running under
\* its job_id.
C33_UpdatesKeepTheJob ==
    /\ [][(tpc = "mutating" /\ tpc' = "ready") => CallFrame(lastOp, prev, js')]_vars
    /\ [][(upd.pc = "mutating" /\ upd'.pc = "ready")
            => CallFrame(upd.op, upd.prev, js')]_vars
    /\ [](js.is_running /\ js.job_id = "J1" /\ js.file_name = "a.mp4")

\* both threads have returned from calls, one of each kind, the second one
\* entered while the first held the lock
C33_Witness ==
    /\ tpc = "ready"
    /\ upd.pc = "ready"
    /\ lastOp.name = "progress"
    /\ upd.op.name = "stage"
    /\ upd.prev = commits[2]
    /\ Len(commits) = 3
    /\ js.stage = "Scene Detection"
    /\ js.is_running


(* ============ the store lock and the client's transmissions ========== *)

\* C35: while post_status is sending or sleeping between attempts no thread
\* holds the store lock, so a GET /status that has reached get_state at that
\* moment goes on at once, and the snapshot it takes is the store with the
\* mutation of the event being sent.
C35_NoLockAcrossTransmission ==
    /\ [](Transmitting => StateLockFree)
    /\ []((Transmitting /\ gpc = "handle_status") => ENABLED HandleStatus)
    /\ [][(Transmitting /\ gpc = "handle_status" /\ gpc' = "respond") =>
            /\ snap'[1] = js
            /\ lastOp = StoreOp(inv)
            /\ snap'[1].job_id = event[1].job_id
            /\ snap'[1].stage = event[1].stage]_vars

\* a request was answered from a snapshot taken between two attempts
C35_Witness ==
    /\ cpc = "sleep"
    /\ attempt = 2
    /\ gpc = "idle"
    /\ resp # <<>>
    /\ resp[1].code = 200
    /\ resp[1].body[1].stage = "Scene Detection"
    /\ resp[1].body[1].percent = 50
    /\ event[1].percent = 50


(* ============ the serve loop: HTTPServer.serve_forever =============== *)

\* a client's connect() completes: the connection waits in the listen
\* backlog for the server's accept()
Connect(c) ==
    /\ conns[c] = "closed"
    /\ conns' = [conns EXCEPT ![c] = "backlog"]
    /\ UNCHANGED <<tvars, qvars, svars, cvars, evars, pvars, jvars, gvars,
                   srv, sthread, sock, startlog, cur>>

\* serve_forever accepts a connection and calls StatusHandler for it in its
\* own thread (HTTPServer, line 83, has no ThreadingMixIn): the next accept
\* comes when that handler has returned
Accept(c) ==
    /\ conns[c] = "backlog"
    /\ cur = None
    /\ cur' = c
    /\ conns' = [conns EXCEPT ![c] = "accepted"]
    /\ UNCHANGED <<tvars, qvars, svars, cvars, evars, pvars, jvars, gvars,
                   srv, sthread, sock, startlog>>

\* the handler has read the request line and headers the client sent (it
\* waits for them with no timeout) and calls do_GET
ReadRequest(p) ==
    /\ cur # None
    /\ conns[cur] = "accepted"
    /\ conns' = [conns EXCEPT ![cur] = "handled"]
    /\ gpc' = "do_GET"
    /\ gpath' = p
    /\ snap' = <<>>
    /\ resp' = <<>>
    /\ UNCHANGED <<tvars, qvars, svars, cvars, evars, pvars, jvars,
                   srv, sthread, sock, startlog, cur>>

\* the handler returns and the connection is closed
Finish ==
    /\ cur # None
    /\ conns[cur] = "handled"
    /\ gpc = "idle"
    /\ conns' = [conns EXCEPT ![cur] = "closed"]
    /\ cur' = None
    /\ UNCHANGED <<tvars, qvars, svars, cvars, evars, pvars, jvars, gvars,
                   srv, sthread, sock, startlog>>

\* status_server.start() has returned and the store exists
ServeInit ==
    /\ QInit
    /\ SIdle
    /\ CIdle
    /\ GIdle
    /\ EIdle
    /\ PIdle
    /\ TIdle
    /\ instance = TRUE
    /\ initialized = TRUE
    /\ js = IdleState(0)
    /\ clk = 0
    /\ lastOp = Op("none", None, None, 0)
    /\ prev = IdleState(0)
    /\ srv = "HTTPServer"
    /\ sthread = "serving"
    /\ sock = "listening"
    /\ startlog = "none"
    /\ conns = [c \in Conns |-> "closed"]
    /\ cur = None

ServeNext ==
    \/ \E c \in Conns : Connect(c)
    \/ \E c \in Conns : Accept(c)
    \/ \E p \in {"/status", "/"} : ReadRequest(p)
    \/ NotFound
    \/ DoGetStatus
    \/ HandleStatus
    \/ SendStatus
    \/ Finish
    \/ \E j \in Jobs : DoStart(j)
    \/ \E m \in Messages : DoFail(m)

ServeSpec == ServeInit /\ [][ServeNext]_vars

\* C36: a connection waiting for the server is taken up whatever the other
\* connections are doing: a handler that is slow on one connection does not
\* hold up the accept of another.
C36_ConnectionsServedConcurrently ==
    \A c \in Conns : conns[c] = "backlog" => ENABLED Accept(c)


(* ============ what a failed run raises and transmits ================= *)

\* C37: the exception a failed run raises to worker_loop is the one whose
\* text the except clause recorded in the store and in the Failed event; the
\* finally clause puts no other exception in its place, at whatever
\* statement of the try the run failed.
C37_RaisedIsTheRecordedError ==
    /\ [](ppc = "raised" /\ Pipeline[pstep].try =>
            /\ exc = js.error_message
            /\ exc = event[1].error_message)
    /\ [][ppc = "finally" => exc' = exc]_vars


(* ============ the de-dup set and the queue =========================== *)

\* the paths the workers have dequeued and not finished: from get() to the
\* discard in the finally clause
Unfinished(ws) ==
    {wpath[w] : w \in {v \in Workers : wpc[v] \in ws}}

NoDuplicates(q) == \A i, j \in 1..Len(q) : q[i] = q[j] => i = j

\* C38, as stated: in every state the de-dup set is the set of the paths on
\* the queue together with the path the worker is at, and the queue holds
\* no path twice.
C38_SetMatchesQueueAlways ==
    /\ queued_files
         = Range(job_queue)
             \cup Unfinished({"dequeued", "running", "except", "finally", "discard"})
    /\ NoDuplicates(job_queue)

\* C38, amended: the same in every state in which no thread holds
\* queue_lock; the queue holds no path twice in any state.
C38_SetMatchesQueueOutsideLock ==
    /\ queue_lock = NoHolder =>
          queued_files
            = Range(job_queue)
                \cup Unfinished({"dequeued", "running", "except", "finally"})
    /\ NoDuplicates(job_queue)

\* one path is being run, another waits on the queue, and a third admission
\* of the path being run was skipped
C38_Witness ==
    /\ queue_lock = NoHolder
    /\ Len(job_queue) = 1
    /\ Cardinality(queued_files) = 2
    /\ \E w \in Workers : wpc[w] = "running" /\ wpath[w] \notin Range(job_queue)
    /\ Len(putLog) = 2
    /\ nemit = 3
    /\ events = <<>>
    /\ hpc = "idle"


\* the event and the store name the same job at the same stage and percent
EventMatchesStore(ev, s) ==
    /\ ev.job_id = s.job_id
    /\ ev.file_name = s.file_name
    /\ ev.stage = s.stage
    /\ ev.percent = s.percent

\* C39: whenever post_status is sending an event of a run (at each attempt
\* and between attempts), the event carries the store's job_id, file_name,
\* stage and percent; for the Failed event the percent is the one the last
\* checkpoint left in the store.
C39_EventMatchesStore ==
    (cpc \in {"attempt", "sleep"}) =>
        /\ event # <<>>
        /\ EventMatchesStore(event[1], js)
        /\ event[1].stage = "Failed" =>
              /\ event[1].percent = prev.percent
              /\ event[1].percent = current_percent
              /\ event[1].error_message = js.error_message

\* the Failed event of a run that failed after the checkpoint at 40 is
\* being sent a second time
C39_Witness ==
    /\ cpc = "attempt"
    /\ attempt = 2
    /\ event # <<>>
    /\ event[1].stage = "Failed"
    /\ event[1].percent = 40
    /\ js.percent = 40
    /\ js.stage = "Failed"


\* C40: in the runs of run_for_file no response to GET /status has the stage
\* "Completed": from the step that applies complete the store is shown as
\* Idle, the store that step replaced was (Archiving, 95) and running, and
\* no snapshot of a running job is beyond 95.
C40_CompletedIsNeverShown ==
    /\ (resp # <<>> /\ resp[1].code = 200) => resp[1].body[1].stage # "Completed"
    /\ js.stage = "Completed" =>
          /\ StatusBody(js).stage = "Idle"
          /\ StatusBody(js).jobId = None
          /\ prev.stage = "Archiving"
          /\ prev.percent = 95
          /\ prev.is_running
    /\ (snap # <<>> /\ snap[1].is_running) => snap[1].percent <= 95

\* a request made after the second job has completed was answered Idle
C40_Witness ==
    /\ js.stage = "Completed"
    /\ js.job_id = "J2"
    /\ snap # <<>>
    /\ snap[1].stage = "Completed"
    /\ gpc = "idle"
    /\ resp # <<>>
    /\ resp[1].code = 200
    /\ resp[1].body[1].stage = "Idle"
    /\ resp[1].body[1].percent = 0

====
